---- MODULE Spec2Model ----
(***************************************************************************)
(* Wallet-watcher: the /track and /untrack command handlers of the         *)
(* Telegram bot and the webhook endpoint that turns provider events into   *)
(* alerts (src/src/services/bot.service.js), the TrackedWallet and User    *)
(* collections (src/unnamed/part_001) and the Moralis stream provider      *)
(* client (src/src/services/moralis.service.js).                           *)
(*                                                                         *)
(* Every handler is an async function: between two awaits it runs alone,   *)
(* at an await other handlers run.  One action of the model is one awaited *)
(* call (its effect on the store or on the provider) followed by the       *)
(* synchronous code up to the next await.                                  *)
(***************************************************************************)
EXTENDS Integers, Sequences, FiniteSets, TLC

\* ---- bounds of the model ----
MaxCmds == 2        \* commands issued in one behaviour
MaxInFlight == 2    \* commands running concurrently
MaxFaults == 1      \* failing store / provider calls in one behaviour
MaxTime == 2        \* milliseconds that pass in one behaviour

\* ---- inputs ----
UserIds == {1, 2}       \* the users who issue commands
AllUserIds == {1, 2, 3} \* user 3 only subscribed before the behaviour starts
NoAlias == "null"
\* <chain, address> arguments of a command: a valid address and a malformed one
TrackInputs == { <<"ETH", "0xab">>, <<"ETH", "0xzz">> }

\* ---- config (src/README.md, config/index.js) ----
SupportedChains == {"ETH", "BSC", "POLYGON", "AVALANCHE", "ARBITRUM", "OPTIMISM", "BASE", "SOL"}
EvmChains == {"ETH", "BSC", "POLYGON", "AVALANCHE", "ARBITRUM", "OPTIMISM", "BASE"}

\* ---- strings: String.prototype.toLowerCase on the addresses of the model ----
LowerTable == [ s \in {"0xab", "0xAB", "0xAb", "0xaB", "0xzz", "So1A", "so1a", "sO1A", "S0lI", ""} |->
    CASE s \in {"0xab", "0xAB", "0xAb", "0xaB"} -> "0xab"
      [] s \in {"So1A", "so1a", "sO1A"} -> "so1a"
      [] s = "S0lI" -> "s0li"
      [] OTHER -> s ]

toLowerCase(s) == IF s \in DOMAIN LowerTable THEN LowerTable[s] ELSE s

\* ethers isAddress: 0x + hex, all one case or with the right checksum.
\* "0xAb" stands for the checksummed spelling of "0xab", "0xaB" for a wrong one.
isAddress(a) == a \in {"0xab", "0xAB", "0xAb"}

\* ethers getAddress: the checksummed spelling, a function of the lowercase hex.
getAddress(a) == IF toLowerCase(a) = "0xab" THEN "0xAb" ELSE a

validateEvmAddress(address) ==
    IF isAddress(address)
    THEN [isValid |-> TRUE, normalizedAddress |-> getAddress(address), error |-> "null"]
    ELSE [isValid |-> FALSE, normalizedAddress |-> "null", error |-> "Invalid EVM address format"]

\* base58 alphabet, 32..44 characters, decoding to 32 bytes ("S0lI" has
\* characters outside the alphabet).
validateSolanaAddress(address) ==
    IF address \in {"So1A", "so1a", "sO1A"}
    THEN [isValid |-> TRUE, normalizedAddress |-> address, error |-> "null"]
    ELSE [isValid |-> FALSE, normalizedAddress |-> "null", error |-> "Invalid Solana address format"]

\* String.prototype.toUpperCase on the chain tickers of the model
UpperTable == [ s \in {"eth", "sol", "doge"} |->
    CASE s = "eth" -> "ETH" [] s = "sol" -> "SOL" [] OTHER -> "DOGE" ]

toUpperCase(s) == IF s \in DOMAIN UpperTable THEN UpperTable[s] ELSE s

validateAddress_EvmDefault(address, chainTicker) ==
    LET chain == toUpperCase(chainTicker)
    IN  IF chain = "SOL"
        THEN LET result == validateSolanaAddress(address)
             IN  IF ~result.isValid
                 THEN [result EXCEPT !.error = "Invalid Solana address format. Expected Base58 encoded address."]
                 ELSE result
        ELSE LET result == validateEvmAddress(address)
             IN  IF ~result.isValid
                 THEN [result EXCEPT !.error = "Invalid address format. Expected 0x... format."]
                 ELSE result

validateAddress(address, chainTicker) ==
    LET chain == toUpperCase(chainTicker)
    IN  IF chain \in EvmChains
        THEN LET result == validateEvmAddress(address)
             IN  IF ~result.isValid
                 THEN [result EXCEPT !.error = "Invalid address format. Expected 0x... format."]
                 ELSE result
        ELSE IF chain = "SOL"
        THEN LET result == validateSolanaAddress(address)
             IN  IF ~result.isValid
                 THEN [result EXCEPT !.error = "Invalid Solana address format. Expected Base58 encoded address."]
                 ELSE result
        ELSE [isValid |-> FALSE, normalizedAddress |-> "null", error |-> "Unsupported chain"]

\* aliases of the model: none, two well-formed ones, one with a character
\* outside [a-zA-Z0-9_\-\s], and one of 33 characters
AliasLength == [ a \in {"Main", "Cold", "bad!", "LongAlias33"} |-> IF a = "LongAlias33" THEN 33 ELSE 4 ]
AliasCharsOk(a) == a # "bad!"

validateAlias(alias) ==
    IF alias = NoAlias THEN TRUE
    ELSE IF AliasLength[alias] > 32 THEN FALSE
    ELSE AliasCharsOk(alias)

\* ---- state ----
VARIABLES
    wallets,      \* the TrackedWallet collection: a set of documents
    users,        \* the User collection: telegramId -> document
    streams,      \* the streams alive at the provider
    nextWalletId, \* next ObjectId
    nextStreamId, \* next stream id the provider hands out
    cmd,          \* the command handlers started so far, with their local variables
    faults,       \* failing calls injected so far
    hook,         \* the webhook request being handled, with the handler's local variables
    db,           \* mongoose.connection of the webhook service
    call,         \* the last call of a function of utils/, with its result
    config,       \* config.security: the rate limit settings read from the environment
    userCommandCounts, \* the Map of the rate limiter: user id -> timestamps of admitted commands
    now           \* Date.now()

vars == <<wallets, users, streams, nextWalletId, nextStreamId, cmd, faults, hook, db, call,
          config, userCommandCounts, now>>

\* no function of utils/ called yet
NoCall == [fn |-> "none", args |-> <<>>, result |-> <<>>]

NoWallet == [id |-> 0, address |-> "", chainTicker |-> "", alias |-> NoAlias,
             trackingUserIds |-> <<>>, moralisStreamId |-> 0, v |-> 0]

NoUser == [exists |-> FALSE, trackedWalletIds |-> {}]

\* ---- arrays ----
includes_Always(arr, x) == TRUE

includes_Never(arr, x) == FALSE

includes(arr, x) == \E k \in 1..Len(arr) : arr[k] = x

RECURSIVE filterOut(_, _)
filterOut(arr, x) ==
    IF arr = <<>> THEN <<>>
    ELSE IF Head(arr) = x THEN filterOut(Tail(arr), x)
    ELSE <<Head(arr)>> \o filterOut(Tail(arr), x)

Elems(arr) == { arr[k] : k \in 1..Len(arr) }

\* ---- the store ----
\* TrackedWallet.findOne({address, chainTicker})
FindOne_AnyChain(address, chainTicker) ==
    LET found == { w \in wallets : w.address = address }
    IN  IF found = {} THEN NoWallet ELSE CHOOSE w \in found : TRUE

FindOne(address, chainTicker) ==
    LET found == { w \in wallets : w.address = address /\ w.chainTicker = chainTicker }
    IN  IF found = {} THEN NoWallet ELSE CHOOSE w \in found : TRUE

UniqueIndexAllows_NoIndex(doc) == TRUE

\* the unique compound index {address, chainTicker}: an insert of a second
\* document with the same pair is refused (duplicate key error)
UniqueIndexAllows(doc) ==
    ~ \E w \in wallets : w.address = doc.address /\ w.chainTicker = doc.chainTicker

PushSave_Replace(local, userId) ==
    { IF w.id = local.id THEN [w EXCEPT !.trackingUserIds = <<userId>>] ELSE w : w \in wallets }

PushSave_WholeArray(local, userId) ==
    { IF w.id = local.id
      THEN [w EXCEPT !.trackingUserIds = Append(local.trackingUserIds, userId)]
      ELSE w : w \in wallets }

\* wallet.save() of an existing document after trackingUserIds.push(userId):
\* an atomic $push on the document with that _id
PushMatches(local) == \E w \in wallets : w.id = local.id

PushSave(local, userId) ==
    { IF w.id = local.id
      THEN [w EXCEPT !.trackingUserIds = Append(w.trackingUserIds, userId)]
      ELSE w : w \in wallets }

SetMatches_NoVersion(id, ver) == \E w \in wallets : w.id = id

\* wallet.save() after trackingUserIds was assigned a new array: a $set of
\* the whole array, guarded by the document's version key (__v), which it
\* increments
SetMatches(id, ver) == \E w \in wallets : w.id = id /\ w.v = ver

SetSave_Lost(id, ver, arr) == wallets

SetSave(id, ver, arr) ==
    { IF w.id = id
      THEN [w EXCEPT !.trackingUserIds = arr, !.v = w.v + 1]
      ELSE w : w \in wallets }

\* TrackedWallet.deleteOne({_id})
DeleteOne(id) == { w \in wallets : w.id # id }

\* User.findOneAndUpdate({telegramId}, {telegramId, username}, {upsert: true})
UpsertUser(userId) ==
    [users EXCEPT ![userId] = [@ EXCEPT !.exists = TRUE]]

\* User.findOneAndUpdate({telegramId}, {$addToSet: {trackedWalletIds: id}})
AddToSetUser(userId, id) ==
    IF users[userId].exists
    THEN [users EXCEPT ![userId].trackedWalletIds = @ \cup {id}]
    ELSE users

\* User.findOneAndUpdate({telegramId}, {$pull: {trackedWalletIds: id}})
PullUser(userId, id) ==
    IF users[userId].exists
    THEN [users EXCEPT ![userId].trackedWalletIds = @ \ {id}]
    ELSE users

\* ---- the provider (MoralisService) ----
BaseUrl_AlwaysEvm(isSolana) == "evm"

\* the sub-API a call is sent to
BaseUrl(isSolana) == IF isSolana THEN "solana" ELSE "evm"

NewStream(id, address, chainTicker) ==
    [id |-> id, address |-> address, chainTicker |-> chainTicker,
     api |-> BaseUrl(chainTicker = "SOL")]

\* the sub-API under which the stream with this id is alive
ApiOf(streamId) ==
    IF \E s \in streams : s.id = streamId
    THEN (CHOOSE s \in streams : s.id = streamId).api
    ELSE "none"

\* DELETE baseUrl/streamId at the provider: the stream is removed when it is
\* alive under that sub-API
DeleteAtProvider(streamId, isSolana) ==
    { s \in streams : ~(s.id = streamId /\ s.api = BaseUrl(isSolana)) }

\* the provider's answer to DELETE baseUrl/streamId: 200 when the stream is
\* alive under that sub-API, 404 when there is no such stream
DeleteStatus(streamId, isSolana) ==
    IF \E s \in streams : s.id = streamId /\ s.api = BaseUrl(isSolana) THEN 200 ELSE 404

\* a provider call that gets no answer or a server error (axios rejects)
RequestFailed == 500

createStream_AlwaysData(status) == "data"

createStream_Inverted(status) ==
    IF status \in {200, 201} THEN "null" ELSE "data"

\* createStream: response.data on 200/201; null on any other status and
\* when axios rejects (caught inside)
createStream(status) ==
    IF status \in {200, 201} THEN "data" ELSE "null"

deleteStream_Rethrow(status) ==
    IF status \in {200, 204} THEN "true" ELSE "throw"

\* deleteStream: true on 200/204; false on any other status and when axios
\* rejects (a non-2xx answer rejects too), caught inside
deleteStream(status) ==
    IF status \in {200, 204} THEN "true" ELSE "false"

\* ---- command bookkeeping ----
Cids == 1..Len(cmd)
InFlight == { i \in Cids : cmd[i].pc # "done" }
CanStart == Len(cmd) < MaxCmds /\ Cardinality(InFlight) < MaxInFlight

Done == { i \in Cids : cmd[i].pc = "done" }

\* no command is running
Quiescent == InFlight = {}

\* the subscriber list stored for a key (<<>> when the key has no record)
StoredSubs(ws, chainTicker, address) ==
    LET found == { w \in ws : w.address = toLowerCase(address) /\ w.chainTicker = chainTicker }
    IN  IF found = {} THEN <<>> ELSE (CHOOSE w \in found : TRUE).trackingUserIds

StoredCount(ws, chainTicker, address) ==
    Cardinality({ w \in ws : w.address = toLowerCase(address) /\ w.chainTicker = chainTicker })

NewCmd(op, userId, chainTicker, address, alias, pc, outcome) ==
    [op |-> op, userId |-> userId, chainTicker |-> chainTicker, address |-> address,
     alias |-> alias, pc |-> pc, wallet |-> NoWallet, streamId |-> 0,
     outcome |-> outcome,
     \* history, not read by the handlers: the commands that had answered
     \* when this one started, its provider calls, whether one of its store
     \* calls was made to fail, and what was stored for its key when it
     \* started and when it answered
     \* and Date.now() when it arrived
     at |-> now,
     after |-> Done, createCalls |-> 0, deleteCalls |-> 0, storeFailed |-> FALSE,
     \* the provider's answers to its calls (0: no call made) and what
     \* deleteStream returned
     createStatus |-> 0, deleteStatus |-> 0, deleteResult |-> "none",
     subsAtStart |-> StoredSubs(wallets, chainTicker, address),
     recsAtStart |-> StoredCount(wallets, chainTicker, address),
     subsAtReply |-> <<>>, recsAtReply |-> 0,
     \* the address as the user typed it
     raw |-> address,
     \* the sub-API its provider calls were sent to, and the sub-API under
     \* which the stream it asked to delete was alive ("none": no call, no
     \* such stream)
     createApi |-> "none", deleteApi |-> "none", streamApi |-> "none"]

\* ctx.reply / editMessageText: the handler answers and returns
Answer(cmds, i, outcome, walletsNow) ==
    [cmds EXCEPT ![i].pc = "done", ![i].outcome = outcome,
                 ![i].subsAtReply = StoredSubs(walletsNow, cmd[i].chainTicker, cmd[i].address),
                 ![i].recsAtReply = StoredCount(walletsNow, cmd[i].chainTicker, cmd[i].address)]

Reply(i, outcome, walletsNow) == cmd' = Answer(cmd, i, outcome, walletsNow)

\* ---- the webhook service: events, signatures, messages ----
\* CHAIN_CONFIG[ticker].moralisChain
moralisChain ==
    [t \in SupportedChains |->
        CASE t = "ETH" -> "0x1"         [] t = "BSC" -> "0x38"
          [] t = "POLYGON" -> "0x89"    [] t = "AVALANCHE" -> "0xa86a"
          [] t = "ARBITRUM" -> "0xa4b1" [] t = "OPTIMISM" -> "0xa"
          [] t = "BASE" -> "0x2105"     [] t = "SOL" -> "solana"]

NoTicker == "null"

chainTickerOf_DefaultEth(chainId) ==
    IF \E t \in SupportedChains : moralisChain[t] = chainId
    THEN CHOOSE t \in SupportedChains : moralisChain[t] = chainId
    ELSE "ETH"

\* processTransaction: the loop over CHAIN_CONFIG that maps webhookData.chainId
\* to a ticker, null when no chain has that id
chainTickerOf(chainId) ==
    IF \E t \in SupportedChains : moralisChain[t] = chainId
    THEN CHOOSE t \in SupportedChains : moralisChain[t] = chainId
    ELSE NoTicker

\* transactions of an event (txs[k]): a transfer to the tracked address
\* written with its checksum, a transfer of the tracked address to itself,
\* and a transfer between two addresses nobody tracks
TxIn == [hash |-> "0xh1", fromAddress |-> "0xcd", toAddress |-> "0xAb"]
TxSelf == [hash |-> "0xh2", fromAddress |-> "0xab", toAddress |-> "0xab"]
TxOther == [hash |-> "0xh3", fromAddress |-> "0xef", toAddress |-> "0xee"]

\* token transfers of an event (erc20Transfers[k])
TokenIn == [transactionHash |-> "0xh1", from |-> "0xcd", to |-> "0xab", address |-> "0xt1"]
TokenOther == [transactionHash |-> "0xh1", from |-> "0xef", to |-> "0xee", address |-> "0xt2"]

\* the parsed JSON bodies that arrive at the endpoint
ChainIds == {"0x1", "0x38", "0x999"}
TxLists == { <<>>, <<TxIn>>, <<TxSelf>>, <<TxOther>>, <<TxIn, TxSelf>> }
TokenLists == { <<>>, <<TokenIn>>, <<TokenIn, TokenOther>> }

\* the positions of a transaction in txs
TxIndex == UNION { DOMAIN txs : txs \in TxLists }

Bodies == [chainId : ChainIds, txs : TxLists, erc20Transfers : TokenLists]

EmptyBody == [chainId |-> "0x1", txs |-> <<>>, erc20Transfers |-> <<>>]

\* config.moralis.webhookSecret, and a key that is not the secret
webhookSecret == "secret"
OtherKey == "other"

\* a value of the x-signature header: its length in bytes and, when it is
\* the hex digest of an HMAC-SHA256, the key and the text it was made of
\* (JSON.stringify(body) is determined by the body, which stands for it)
Hmac(key, body) == [len |-> 64, key |-> key, text |-> body]
Literal(n) == [len |-> n, key |-> "", text |-> EmptyBody]

\* req.headers['x-signature']: undefined when the header is absent
Header(present, value) == [present |-> present, value |-> value]

\* no header, an empty one, a short word, 64 hex characters that are no
\* digest, and the digest of another body
NoHeader == Header(FALSE, Literal(0))
EmptyHeader == Header(TRUE, Literal(0))
ShortHeader == Header(TRUE, Literal(4))
HexHeader == Header(TRUE, Literal(64))
StaleHeader == Header(TRUE, Hmac(webhookSecret, EmptyBody))

\* the headers a request with body b may carry: those, the digest of b
\* under another key, and the digest of b under the secret
Headers(b) ==
    { NoHeader, EmptyHeader, ShortHeader, HexHeader, StaleHeader,
      Header(TRUE, Hmac(OtherKey, b)), Header(TRUE, Hmac(webhookSecret, b)) }

\* !signature: the header is absent, or present with the empty string
IsProbe_Never(header) == FALSE

IsProbe(header) == ~header.present \/ header.value.len = 0

\* crypto.timingSafeEqual(Buffer.from(a), Buffer.from(b)): throws when the
\* byte lengths differ
timingSafeEqual(a, b) ==
    IF a.len # b.len THEN "throw" ELSE IF a = b THEN "true" ELSE "false"

verifyWebhookSignature_NoCatch(body, signature) ==
    timingSafeEqual(signature, Hmac(webhookSecret, body))

\* verifyWebhookSignature: the comparison with the expected digest inside
\* try/catch, false when it throws
verifyWebhookSignature(body, signature) ==
    LET compared == timingSafeEqual(signature, Hmac(webhookSecret, body))
    IN  IF compared = "throw" THEN "false" ELSE compared

\* ---- utils/formatters.js: formatValue ----
\* strings are sequences of characters
DigitChars == <<"0", "1", "2", "3", "4", "5", "6", "7", "8", "9">>

\* BigInt.prototype.toString of a non-negative integer
RECURSIVE toString(_)
toString(n) ==
    IF n < 10 THEN <<DigitChars[n + 1]>>
    ELSE toString(n \div 10) \o <<DigitChars[(n % 10) + 1]>>

\* String.prototype.padStart(targetLength, '0')
RECURSIVE padStart(_, _)
padStart(str, targetLength) ==
    IF Len(str) >= targetLength THEN str ELSE padStart(<<"0">> \o str, targetLength)

\* String.prototype.slice(0, end)
slice(str, end) == SubSeq(str, 1, IF end < Len(str) THEN end ELSE Len(str))

\* String.prototype.replace(/0+$/, '')
RECURSIVE trimZeros(_)
trimZeros(str) ==
    IF str # <<>> /\ str[Len(str)] = "0" THEN trimZeros(SubSeq(str, 1, Len(str) - 1))
    ELSE str

\* 10 ** decimals (a double, exact up to 10 ** 22), then BigInt(...)
RECURSIVE pow10(_)
pow10(decimals) == IF decimals = 0 THEN 1 ELSE 10 * pow10(decimals - 1)

formatValue_NoTrim(value, decimals) ==
    LET amount == value \div pow10(decimals)
        remainder == value % pow10(decimals)
        decimalPart == padStart(toString(remainder), decimals)
    IN  IF amount = 0 /\ remainder = 0 THEN <<"0">>
        ELSE LET amountStr == toString(amount)
                 decimalStr == slice(decimalPart, 8)
             IN  IF decimalStr # <<>> THEN amountStr \o <<".">> \o decimalStr
                 ELSE amountStr

\* formatValue(value, decimals): value is the integer BigInt(value) reads
formatValue(value, decimals) ==
    LET amount == value \div pow10(decimals)
        remainder == value % pow10(decimals)
        decimalPart == padStart(toString(remainder), decimals)
    IN  IF amount = 0 /\ remainder = 0 THEN <<"0">>
        ELSE LET amountStr == toString(amount)
                 decimalStr == trimZeros(slice(decimalPart, 8))
             IN  IF decimalStr # <<>> THEN amountStr \o <<".">> \o decimalStr
                 ELSE amountStr

formatNativeTransaction_CaseSensitive(txData, chainTicker, trackedAddress) ==
    [kind |-> "native", chainTicker |-> chainTicker, txHash |-> txData.hash,
     from |-> toLowerCase(txData.fromAddress), to |-> toLowerCase(txData.toAddress),
     isIncoming |-> txData.toAddress = trackedAddress,
     token |-> ""]

\* formatNativeTransaction(txData, chainTicker, trackedAddress): the parts of
\* the message that depend on the arguments
formatNativeTransaction(txData, chainTicker, trackedAddress) ==
    [kind |-> "native", chainTicker |-> chainTicker, txHash |-> txData.hash,
     from |-> toLowerCase(txData.fromAddress), to |-> toLowerCase(txData.toAddress),
     isIncoming |-> toLowerCase(txData.toAddress) = toLowerCase(trackedAddress),
     token |-> ""]

\* formatTokenTransaction(tokenTransfer, chainTicker, trackedAddress)
formatTokenTransaction(txData, chainTicker, trackedAddress) ==
    [kind |-> "token", chainTicker |-> chainTicker, txHash |-> txData.transactionHash,
     from |-> toLowerCase(txData.from), to |-> toLowerCase(txData.to),
     isIncoming |-> toLowerCase(txData.to) = toLowerCase(trackedAddress),
     token |-> txData.address]

sendAlertToBot_Rethrow(failed) == IF failed THEN "rejected" ELSE "resolved"

\* sendAlertToBot: the POST to the Telegram API inside try/catch; the
\* promise resolves whether the POST succeeded or not
sendAlertToBot(failed) == "resolved"

\* trackedAddresses of processTransaction: the lowercased sender, then the
\* lowercased recipient, each when it is not empty
trackedAddresses(txData) ==
    LET fromAddr == toLowerCase(txData.fromAddress)
        toAddr == toLowerCase(txData.toAddress)
    IN  (IF fromAddr # "" THEN <<fromAddr>> ELSE <<>>) \o
        (IF toAddr # "" THEN <<toAddr>> ELSE <<>>)

\* one call of processTransaction: where it is (pc), the address, token
\* transfer and subscriber it is at, and the subscribers it read
NewTx(txData, chainId) ==
    LET chainTicker == chainTickerOf(chainId)
        addresses == IF chainTicker = NoTicker THEN <<>> ELSE trackedAddresses(txData)
    IN  [pc |-> IF addresses = <<>> THEN "done" ELSE "findOne",
         chainTicker |-> chainTicker, addresses |-> addresses,
         ai |-> 1, ti |-> 0, si |-> 0, subscribers |-> <<>>]

\* the request the webhook service is handling; pc idle: none yet.  status
\* is the HTTP status of the response (0: not answered).  History, not read
\* by the handler: the store lookups made, the deliveries attempted, the
\* commands that had answered when the request arrived, whether a store or
\* delivery call of the request failed
NewRequest(body, header, pc) ==
    [pc |-> pc, body |-> body, header |-> header, status |-> 0, reply |-> "",
     tx |-> <<>>, lookups |-> 0, sent |-> {}, after |-> Done,
     storeFailed |-> FALSE, sendFailed |-> FALSE]

NoRequest == NewRequest(EmptyBody, NoHeader, "idle")

\* ---- rate limiting for commands ----
\* config.security with RATE_LIMIT_WINDOW_MS and RATE_LIMIT_MAX_REQUESTS unset
DefaultConfig == [rateLimitWindowMs |-> 60000, rateLimitMaxRequests |-> 10]

\* const userCommandCounts = new Map(): a user without an entry is
\* given the empty array at the first call
NoCommandCounts == [u \in AllUserIds |-> <<>>]

checkRateLimit_NoFilter(userId) ==
    LET timestamps == userCommandCounts[userId]
    IN  IF Len(timestamps) >= config.rateLimitMaxRequests
        THEN [admitted |-> FALSE, timestamps |-> timestamps]
        ELSE [admitted |-> TRUE, timestamps |-> Append(timestamps, now)]

\* checkRateLimit(userId): what it returns and the array it leaves in the
\* Map for the user
checkRateLimit(userId) ==
    LET timestamps == userCommandCounts[userId]
        windowMs == config.rateLimitWindowMs
        maxRequests == config.rateLimitMaxRequests
        Recent(ts) == now - ts < windowMs
        filtered == SelectSeq(timestamps, Recent)
    IN  IF Len(filtered) >= maxRequests
        THEN [admitted |-> FALSE, timestamps |-> filtered]
        ELSE [admitted |-> TRUE, timestamps |-> Append(filtered, now)]

\* The store and the provider when the behaviour starts: nothing tracked
\* yet, or one wallet (ETH, 0xab) that the users of subs tracked one after
\* the other: /track by the first created stream 1 and the record, /track
\* by the others pushed them onto the record.
InitialSubscribers == { <<>>, <<1>>, <<1, 2>>, <<3>> }

InitialWallet(subs) ==
    [id |-> 1, address |-> "0xab", chainTicker |-> "ETH", alias |-> NoAlias,
     trackingUserIds |-> subs, moralisStreamId |-> 1, v |-> 0]

Init ==
    /\ \E subs \in InitialSubscribers :
        /\ wallets = IF subs = <<>> THEN {} ELSE {InitialWallet(subs)}
        /\ users = [u \in AllUserIds |->
                       IF u \in Elems(subs)
                       THEN [exists |-> TRUE, trackedWalletIds |-> {1}]
                       ELSE NoUser]
        /\ streams = IF subs = <<>> THEN {} ELSE {NewStream(1, "0xAb", "ETH")}
        /\ nextWalletId = IF subs = <<>> THEN 1 ELSE 2
        /\ nextStreamId = IF subs = <<>> THEN 1 ELSE 2
    /\ cmd = <<>>
    /\ faults = 0
    /\ hook = NoRequest
    /\ call = NoCall
    /\ config = DefaultConfig
    /\ userCommandCounts = NoCommandCounts
    /\ now = 0
    /\ db = "connected"

\* ---- /track ----
\* bot.command('track'): the rate limit, the argument checks, then
\* 'Setting up tracking...'
StartTrack(userId, chainTicker, address, alias) ==
    /\ CanStart
    /\ LET limit == checkRateLimit(userId)
           validation == validateAddress(address, chainTicker)
           valid == /\ chainTicker \in SupportedChains
                    /\ (alias # NoAlias => validateAlias(alias))
                    /\ validation.isValid
       IN  /\ userCommandCounts' = [userCommandCounts EXCEPT ![userId] = limit.timestamps]
           /\ IF ~limit.admitted
              THEN cmd' = Append(cmd, NewCmd("track", userId, chainTicker, address, alias, "done", "rate_limited"))
              ELSE IF valid
              THEN cmd' = Append(cmd, [NewCmd("track", userId, chainTicker,
                                              validation.normalizedAddress, alias, "ensureUser", "pending")
                                       EXCEPT !.raw = address])
              ELSE cmd' = Append(cmd, NewCmd("track", userId, chainTicker, address, alias, "done", "invalid"))
    /\ UNCHANGED <<wallets, users, streams, nextWalletId, nextStreamId, faults, hook, db, call, config, now>>

\* await User.findOneAndUpdate(..., {upsert: true})
TrackEnsureUser(i) ==
    /\ i \in Cids /\ cmd[i].op = "track" /\ cmd[i].pc = "ensureUser"
    /\ users' = UpsertUser(cmd[i].userId)
    /\ cmd' = [cmd EXCEPT ![i].pc = "findOne"]
    /\ UNCHANGED <<wallets, streams, nextWalletId, nextStreamId, faults, hook, db, call, config, userCommandCounts, now>>

\* await TrackedWallet.findOne(...), then the branch on the result
TrackFindOne(i) ==
    /\ i \in Cids /\ cmd[i].op = "track" /\ cmd[i].pc = "findOne"
    /\ LET wallet == FindOne(toLowerCase(cmd[i].address), cmd[i].chainTicker)
       IN  IF wallet # NoWallet
           THEN IF includes(wallet.trackingUserIds, cmd[i].userId)
                THEN Reply(i, "already", wallets)
                ELSE /\ cmd' = [cmd EXCEPT ![i].pc = "pushSave", ![i].wallet = wallet]
           ELSE /\ cmd' = [cmd EXCEPT ![i].pc = "createStream"]
    /\ UNCHANGED <<wallets, users, streams, nextWalletId, nextStreamId, faults, hook, db, call, config, userCommandCounts, now>>

\* a /track of an existing key that also stores its own alias
TrackPushSave_SetAlias(i) ==
    /\ i \in Cids /\ cmd[i].op = "track" /\ cmd[i].pc = "pushSave"
    /\ IF PushMatches(cmd[i].wallet)
       THEN /\ wallets' = { IF w.id = cmd[i].wallet.id /\ cmd[i].alias # NoAlias
                             THEN [w EXCEPT !.alias = cmd[i].alias]
                             ELSE w : w \in PushSave(cmd[i].wallet, cmd[i].userId) }
            /\ cmd' = [cmd EXCEPT ![i].pc = "addExisting"]
       ELSE /\ wallets' = wallets
            /\ Reply(i, "error", wallets)
    /\ UNCHANGED <<users, streams, nextWalletId, nextStreamId, faults, hook, db, call, config, userCommandCounts, now>>

\* wallet.trackingUserIds.push(userId); await wallet.save()
TrackPushSave(i) ==
    /\ i \in Cids /\ cmd[i].op = "track" /\ cmd[i].pc = "pushSave"
    /\ IF PushMatches(cmd[i].wallet)
       THEN /\ wallets' = PushSave(cmd[i].wallet, cmd[i].userId)
            /\ cmd' = [cmd EXCEPT ![i].pc = "addExisting"]
       ELSE /\ wallets' = wallets            \* DocumentNotFoundError -> catch
            /\ Reply(i, "error", wallets)
    /\ UNCHANGED <<users, streams, nextWalletId, nextStreamId, faults, hook, db, call, config, userCommandCounts, now>>

\* await User.findOneAndUpdate($addToSet), then 'Now tracking wallet!'
TrackAddExisting(i) ==
    /\ i \in Cids /\ cmd[i].op = "track" /\ cmd[i].pc = "addExisting"
    /\ users' = AddToSetUser(cmd[i].userId, cmd[i].wallet.id)
    /\ Reply(i, "added", wallets)
    /\ UNCHANGED <<wallets, streams, nextWalletId, nextStreamId, faults, hook, db, call, config, userCommandCounts, now>>

\* await moralisService.createStream(...), then the test of streamData
TrackCreateStream(i) ==
    /\ i \in Cids /\ cmd[i].op = "track" /\ cmd[i].pc = "createStream"
    /\ \E failed \in BOOLEAN :
        /\ failed => faults < MaxFaults
        /\ LET status == IF failed THEN RequestFailed ELSE 201
               created == status = 201
               \* streamData.id: undefined when there is no stream
               id == IF created THEN nextStreamId ELSE 0
               called == [cmd EXCEPT ![i].createCalls = @ + 1, ![i].createStatus = status,
                                     ![i].createApi = BaseUrl(cmd[i].chainTicker = "SOL")]
           IN  /\ streams' = IF created
                             THEN streams \cup {NewStream(nextStreamId, cmd[i].address, cmd[i].chainTicker)}
                             ELSE streams
               /\ nextStreamId' = IF created THEN nextStreamId + 1 ELSE nextStreamId
               /\ faults' = IF failed THEN faults + 1 ELSE faults
               /\ IF createStream(status) = "data"
                  THEN cmd' = [called EXCEPT ![i].pc = "insert", ![i].streamId = id]
                  ELSE cmd' = Answer(called, i, "failed", wallets)
    /\ UNCHANGED <<wallets, users, nextWalletId, hook, db, call, config, userCommandCounts, now>>

\* wallet = new TrackedWallet({...}); await wallet.save()
TrackInsert(i) ==
    /\ i \in Cids /\ cmd[i].op = "track" /\ cmd[i].pc = "insert"
    /\ LET doc == [id |-> nextWalletId,
                   address |-> toLowerCase(cmd[i].address),
                   chainTicker |-> cmd[i].chainTicker,
                   alias |-> cmd[i].alias,
                   trackingUserIds |-> <<cmd[i].userId>>,
                   moralisStreamId |-> cmd[i].streamId,
                   v |-> 0]
       IN  IF UniqueIndexAllows(doc)
           THEN /\ wallets' = wallets \cup {doc}
                /\ nextWalletId' = nextWalletId + 1
                /\ cmd' = [cmd EXCEPT ![i].pc = "addNew", ![i].wallet = doc]
           ELSE /\ wallets' = wallets          \* duplicate key error -> catch
                /\ nextWalletId' = nextWalletId
                /\ Reply(i, "error", wallets)
    /\ UNCHANGED <<users, streams, nextStreamId, faults, hook, db, call, config, userCommandCounts, now>>

\* await User.findOneAndUpdate($addToSet), then 'Tracking started!'
TrackAddNew(i) ==
    /\ i \in Cids /\ cmd[i].op = "track" /\ cmd[i].pc = "addNew"
    /\ users' = AddToSetUser(cmd[i].userId, cmd[i].wallet.id)
    /\ Reply(i, "started", wallets)
    /\ UNCHANGED <<wallets, streams, nextWalletId, nextStreamId, faults, hook, db, call, config, userCommandCounts, now>>

\* ---- /untrack ----
\* bot.command('untrack'): argument checks, then 'Removing tracking...'
StartUntrack(userId, chainTicker, address) ==
    /\ CanStart
    /\ LET limit == checkRateLimit(userId)
           validation == validateAddress(address, chainTicker)
       IN  /\ userCommandCounts' = [userCommandCounts EXCEPT ![userId] = limit.timestamps]
           /\ IF ~limit.admitted
              THEN cmd' = Append(cmd, NewCmd("untrack", userId, chainTicker, address, NoAlias, "done", "rate_limited"))
              ELSE IF validation.isValid
              THEN cmd' = Append(cmd, NewCmd("untrack", userId, chainTicker,
                                             validation.normalizedAddress, NoAlias, "findOne", "pending"))
              ELSE cmd' = Append(cmd, NewCmd("untrack", userId, chainTicker, address, NoAlias, "done", "invalid"))
    /\ UNCHANGED <<wallets, users, streams, nextWalletId, nextStreamId, faults, hook, db, call, config, now>>

AfterFilter_AlwaysSave(local) == "save"

AfterFilter_NoRelease(local) ==
    IF Len(local.trackingUserIds) = 0 THEN "deleteOne" ELSE "save"

\* the branch on the filtered local array: the last subscriber left
\* (release the stream, then delete the record) or others remain (save)
AfterFilter(local) ==
    IF Len(local.trackingUserIds) = 0
    THEN IF local.moralisStreamId # 0 THEN "deleteStream" ELSE "deleteOne"
    ELSE "save"

\* await TrackedWallet.findOne(...), the membership test, and the filter of
\* the local copy of trackingUserIds
UntrackFindOne(i) ==
    /\ i \in Cids /\ cmd[i].op = "untrack" /\ cmd[i].pc = "findOne"
    /\ LET wallet == FindOne(toLowerCase(cmd[i].address), cmd[i].chainTicker)
           rest == filterOut(wallet.trackingUserIds, cmd[i].userId)
           local == [wallet EXCEPT !.trackingUserIds = rest]
       IN  IF wallet = NoWallet \/ ~includes(wallet.trackingUserIds, cmd[i].userId)
           THEN Reply(i, "not_tracking", wallets)
           ELSE cmd' = [cmd EXCEPT ![i].wallet = local, ![i].pc = AfterFilter(local)]
    /\ UNCHANGED <<wallets, users, streams, nextWalletId, nextStreamId, faults, hook, db, call, config, userCommandCounts, now>>

\* await moralisService.deleteStream(wallet.moralisStreamId, isSolana); the
\* returned boolean is not looked at
UntrackDeleteStream(i) ==
    /\ i \in Cids /\ cmd[i].op = "untrack" /\ cmd[i].pc = "deleteStream"
    /\ LET isSolana == cmd[i].chainTicker = "SOL"
           streamId == cmd[i].wallet.moralisStreamId
       IN  \E failed \in BOOLEAN :
            /\ failed => faults < MaxFaults
            /\ faults' = IF failed THEN faults + 1 ELSE faults
            /\ LET status == IF failed THEN RequestFailed ELSE DeleteStatus(streamId, isSolana)
                   result == deleteStream(status)
                   called == [cmd EXCEPT ![i].deleteCalls = @ + 1,
                                         ![i].deleteStatus = status,
                                         ![i].deleteResult = result,
                                         ![i].deleteApi = BaseUrl(isSolana),
                                         ![i].streamApi = ApiOf(streamId)]
               IN  /\ streams' = IF status = 200 THEN DeleteAtProvider(streamId, isSolana) ELSE streams
                   /\ IF result = "throw"              \* would reach the handler's catch
                      THEN cmd' = Answer(called, i, "error", wallets)
                      ELSE cmd' = [called EXCEPT ![i].pc = "deleteOne"]
    /\ UNCHANGED <<wallets, users, nextWalletId, nextStreamId, hook, db, call, config, userCommandCounts, now>>

\* await TrackedWallet.deleteOne({_id: wallet._id})
UntrackDeleteOne(i) ==
    /\ i \in Cids /\ cmd[i].op = "untrack" /\ cmd[i].pc = "deleteOne"
    /\ wallets' = DeleteOne(cmd[i].wallet.id)
    /\ cmd' = [cmd EXCEPT ![i].pc = "pull"]
    /\ UNCHANGED <<users, streams, nextWalletId, nextStreamId, faults, hook, db, call, config, userCommandCounts, now>>

\* await wallet.save() with the filtered array
UntrackSave(i) ==
    /\ i \in Cids /\ cmd[i].op = "untrack" /\ cmd[i].pc = "save"
    /\ IF SetMatches(cmd[i].wallet.id, cmd[i].wallet.v)
       THEN /\ wallets' = SetSave(cmd[i].wallet.id, cmd[i].wallet.v, cmd[i].wallet.trackingUserIds)
            /\ cmd' = [cmd EXCEPT ![i].pc = "pull"]
       ELSE /\ wallets' = wallets              \* VersionError -> catch
            /\ Reply(i, "error", wallets)
    /\ UNCHANGED <<users, streams, nextWalletId, nextStreamId, faults, hook, db, call, config, userCommandCounts, now>>

\* await User.findOneAndUpdate($pull), then 'Stopped tracking wallet'
UntrackPull(i) ==
    /\ i \in Cids /\ cmd[i].op = "untrack" /\ cmd[i].pc = "pull"
    /\ users' = PullUser(cmd[i].userId, cmd[i].wallet.id)
    /\ Reply(i, "stopped", wallets)
    /\ UNCHANGED <<wallets, streams, nextWalletId, nextStreamId, faults, hook, db, call, config, userCommandCounts, now>>

\* ---- failing store calls ----
\* any awaited store call may reject (store unreachable): the handler's
\* catch block answers with the error message
StorePcs == {"ensureUser", "findOne", "pushSave", "addExisting", "insert", "addNew",
             "deleteOne", "save", "pull"}

StoreCallFails(i) ==
    /\ i \in Cids /\ cmd[i].pc \in StorePcs
    /\ faults < MaxFaults
    /\ faults' = faults + 1
    /\ cmd' = Answer([cmd EXCEPT ![i].storeFailed = TRUE], i, "error", wallets)
    /\ UNCHANGED <<wallets, users, streams, nextWalletId, nextStreamId, hook, db, call, config, userCommandCounts, now>>

Next ==
    \/ \E u \in UserIds, inp \in TrackInputs : StartTrack(u, inp[1], inp[2], NoAlias)
    \/ \E i \in 1..MaxCmds : TrackEnsureUser(i)
    \/ \E i \in 1..MaxCmds : TrackFindOne(i)
    \/ \E i \in 1..MaxCmds : TrackPushSave(i)
    \/ \E i \in 1..MaxCmds : TrackAddExisting(i)
    \/ \E i \in 1..MaxCmds : TrackCreateStream(i)
    \/ \E i \in 1..MaxCmds : TrackInsert(i)
    \/ \E i \in 1..MaxCmds : TrackAddNew(i)
    \/ \E u \in UserIds, inp \in TrackInputs : StartUntrack(u, inp[1], inp[2])
    \/ \E i \in 1..MaxCmds : UntrackFindOne(i)
    \/ \E i \in 1..MaxCmds : UntrackDeleteStream(i)
    \/ \E i \in 1..MaxCmds : UntrackDeleteOne(i)
    \/ \E i \in 1..MaxCmds : UntrackSave(i)
    \/ \E i \in 1..MaxCmds : UntrackPull(i)
    \/ \E i \in 1..MaxCmds : StoreCallFails(i)

Spec == Init /\ [][Next]_vars

\* ---- the webhook service: POST webhookPath ----
\* a request arrives (the service handles one request after the other)
HookReceive(body, header) ==
    /\ hook.pc \in {"idle", "done"}
    /\ hook' = NewRequest(body, header, "middleware")
    /\ UNCHANGED <<wallets, users, streams, nextWalletId, nextStreamId, cmd, faults, db, call, config, userCommandCounts, now>>

Answered(req, status, reply) ==
    [req EXCEPT !.pc = "done", !.status = status, !.reply = reply]

Handler_NoVerify(req) ==
    IF IsProbe(req.header)
    THEN Answered(req, 200, "probe")
    ELSE IF Len(req.body.txs) = 0
    THEN Answered(req, 200, "no_transactions")
    ELSE [req EXCEPT !.pc = "processing",
                     !.tx = [k \in 1..Len(req.body.txs) |->
                                NewTx(req.body.txs[k], req.body.chainId)]]

\* the route handler up to its first await: the probe answer, the signature
\* check, the empty event, or the start of one processTransaction per
\* transaction (Promise.all over txs.map)
Handler(req) ==
    IF IsProbe(req.header)
    THEN Answered(req, 200, "probe")
    ELSE LET verified == verifyWebhookSignature(req.body, req.header.value)
             txs == req.body.txs
         IN  IF verified = "throw"                 \* would reach the outer catch
             THEN Answered(req, 500, "error")
             ELSE IF verified = "false"
             THEN Answered(req, 401, "invalid_signature")
             ELSE IF Len(txs) = 0
             THEN Answered(req, 200, "no_transactions")
             ELSE [req EXCEPT !.pc = "processing",
                              !.tx = [k \in 1..Len(txs) |-> NewTx(txs[k], req.body.chainId)]]

\* the connection middleware (await connectDatabase when mongoose is not
\* connected; 500 when that fails), then next(): the route handler
HookMiddleware ==
    /\ hook.pc = "middleware"
    /\ IF db = "connected"
       THEN /\ hook' = Handler(hook)
            /\ UNCHANGED <<db, faults>>
       ELSE \E failed \in BOOLEAN :
             /\ failed => faults < MaxFaults
             /\ faults' = IF failed THEN faults + 1 ELSE faults
             /\ db' = IF failed THEN db ELSE "connected"
             /\ hook' = IF failed
                        THEN Answered([hook EXCEPT !.storeFailed = TRUE], 500, "database")
                        ELSE Handler(hook)
    /\ UNCHANGED <<wallets, users, streams, nextWalletId, nextStreamId, cmd, call, config, userCommandCounts, now>>

\* processTransaction returns (also from its catch block)
DoneTx(t) ==
    [t EXCEPT !.pc = "done", !.ai = 1, !.ti = 0, !.si = 0, !.subscribers = <<>>]

\* the for loop over trackedAddresses goes on to the next address
NextAddress(t) ==
    IF t.ai < Len(t.addresses)
    THEN [t EXCEPT !.pc = "findOne", !.ai = @ + 1, !.ti = 0, !.si = 0, !.subscribers = <<>>]
    ELSE DoneTx(t)

\* the code after findOne: skip the address, or start sending, one message
\* per token transfer when the event has token transfers (ti # 0), else the
\* native message (ti = 0)
AfterFindOne(t, wallet, tokens) ==
    IF wallet = NoWallet \/ Len(wallet.trackingUserIds) = 0
    THEN NextAddress(t)
    ELSE [t EXCEPT !.pc = "send", !.subscribers = wallet.trackingUserIds, !.si = 1,
                   !.ti = IF Len(tokens) > 0 THEN 1 ELSE 0]

AfterSend_FirstOnly(t, tokens) == NextAddress(t)

\* the loops over subscribers and over erc20Transfers go on
AfterSend(t, tokens) ==
    IF t.si < Len(t.subscribers) THEN [t EXCEPT !.si = @ + 1]
    ELSE IF t.ti # 0 /\ t.ti < Len(tokens) THEN [t EXCEPT !.ti = @ + 1, !.si = 1]
    ELSE NextAddress(t)

\* await TrackedWallet.findOne({address, chainTicker}) of transaction k
HookFindOne(k) ==
    /\ hook.pc = "processing" /\ k \in DOMAIN hook.tx /\ hook.tx[k].pc = "findOne"
    /\ LET t == hook.tx[k]
           wallet == FindOne(t.addresses[t.ai], t.chainTicker)
       IN  hook' = [hook EXCEPT !.lookups = @ + 1,
                                !.tx[k] = AfterFindOne(t, wallet, hook.body.erc20Transfers)]
    /\ UNCHANGED <<wallets, users, streams, nextWalletId, nextStreamId, cmd, faults, db, call, config, userCommandCounts, now>>

\* the findOne rejects (store unreachable): the catch block of
\* processTransaction logs and returns
HookFindOneFails(k) ==
    /\ hook.pc = "processing" /\ k \in DOMAIN hook.tx /\ hook.tx[k].pc = "findOne"
    /\ faults < MaxFaults
    /\ faults' = faults + 1
    /\ hook' = [hook EXCEPT !.lookups = @ + 1, !.storeFailed = TRUE,
                            !.tx[k] = DoneTx(hook.tx[k])]
    /\ UNCHANGED <<wallets, users, streams, nextWalletId, nextStreamId, cmd, db, call, config, userCommandCounts, now>>

\* await sendAlertToBot(userId, message) of transaction k
HookSend(k) ==
    /\ hook.pc = "processing" /\ k \in DOMAIN hook.tx /\ hook.tx[k].pc = "send"
    /\ \E failed \in BOOLEAN :
        /\ failed => faults < MaxFaults
        /\ faults' = IF failed THEN faults + 1 ELSE faults
        /\ LET t == hook.tx[k]
               tokens == hook.body.erc20Transfers
               address == t.addresses[t.ai]
               message == IF t.ti = 0
                          THEN formatNativeTransaction(hook.body.txs[k], t.chainTicker, address)
                          ELSE formatTokenTransaction(tokens[t.ti], t.chainTicker, address)
               delivery == [tx |-> k, ai |-> t.ai, address |-> address, ti |-> t.ti,
                            userId |-> t.subscribers[t.si], message |-> message,
                            ok |-> ~failed]
           IN  hook' = [hook EXCEPT !.sent = @ \cup {delivery},
                                    !.sendFailed = @ \/ failed,
                                    !.tx[k] = IF sendAlertToBot(failed) = "rejected"
                                              THEN DoneTx(t)
                                              ELSE AfterSend(t, tokens)]
    /\ UNCHANGED <<wallets, users, streams, nextWalletId, nextStreamId, cmd, db, call, config, userCommandCounts, now>>

\* Promise.all has settled: res.json({status: 'ok', processed: txs.length})
HookRespond ==
    /\ hook.pc = "processing"
    /\ \A k \in DOMAIN hook.tx : hook.tx[k].pc = "done"
    /\ hook' = Answered(hook, 200, "processed")
    /\ UNCHANGED <<wallets, users, streams, nextWalletId, nextStreamId, cmd, faults, db, call, config, userCommandCounts, now>>

\* The webhook service over a store that commands have filled: wallet
\* (ETH, 0xab) tracked by nobody yet, by user 1, or by users 1 and 2, and
\* possibly wallet (ETH, 0xcd) tracked by user 2, and possibly wallet
\* (BSC, 0xee) tracked by user 3; mongoose connected or not yet (cold start).
SecondWallet ==
    [id |-> 2, address |-> "0xcd", chainTicker |-> "ETH", alias |-> NoAlias,
     trackingUserIds |-> <<2>>, moralisStreamId |-> 2, v |-> 0]

OtherChainWallet ==
    [id |-> 3, address |-> "0xee", chainTicker |-> "BSC", alias |-> NoAlias,
     trackingUserIds |-> <<3>>, moralisStreamId |-> 3, v |-> 0]

InitHook ==
    /\ \E subs \in { <<>>, <<1>>, <<1, 2>> }, second \in BOOLEAN, other \in BOOLEAN :
        /\ wallets = (IF subs = <<>> THEN {} ELSE {InitialWallet(subs)})
                        \cup (IF second THEN {SecondWallet} ELSE {})
                        \cup (IF other THEN {OtherChainWallet} ELSE {})
        /\ users = [u \in AllUserIds |->
                       [exists |-> \/ u \in Elems(subs) \/ (second /\ u = 2)
                                   \/ (other /\ u = 3),
                        trackedWalletIds |-> (IF u \in Elems(subs) THEN {1} ELSE {})
                                                \cup (IF second /\ u = 2 THEN {2} ELSE {})
                                                \cup (IF other /\ u = 3 THEN {3} ELSE {})]]
        /\ streams = (IF subs = <<>> THEN {} ELSE {NewStream(1, "0xAb", "ETH")})
                        \cup (IF second THEN {NewStream(2, "0xcd", "ETH")} ELSE {})
                        \cup (IF other THEN {NewStream(3, "0xee", "BSC")} ELSE {})
    /\ nextWalletId = 4
    /\ nextStreamId = 4
    /\ cmd = <<>>
    /\ faults = 0
    /\ hook = NoRequest
    /\ call = NoCall
    /\ config = DefaultConfig
    /\ userCommandCounts = NoCommandCounts
    /\ now = 0
    /\ db \in {"connected", "disconnected"}

NextHook ==
    \/ \E body \in Bodies : \E header \in Headers(body) : HookReceive(body, header)
    \/ HookMiddleware
    \/ \E k \in TxIndex : HookFindOne(k)
    \/ \E k \in TxIndex : HookFindOneFails(k)
    \/ \E k \in TxIndex : HookSend(k)
    \/ HookRespond

SpecHook == InitHook /\ [][NextHook]_vars

\* The chat endpoint accepts the POST of sendAlertToBot and never answers:
\* axios.post is called without a timeout option (the axios default, 0, is
\* no timeout), so the promise stays pending and with it the for loop of
\* processTransaction, Promise.all and the response
HookSendHangs(k) ==
    /\ hook.pc = "processing" /\ k \in DOMAIN hook.tx /\ hook.tx[k].pc = "send"
    /\ faults < MaxFaults
    /\ faults' = faults + 1
    /\ hook' = [hook EXCEPT !.sendFailed = TRUE, !.tx[k].pc = "pending"]
    /\ UNCHANGED <<wallets, users, streams, nextWalletId, nextStreamId, cmd, db, call, config, userCommandCounts, now>>

\* the steps of the handler of the request
HandlerStep ==
    \/ HookMiddleware
    \/ \E k \in TxIndex : HookFindOne(k)
    \/ \E k \in TxIndex : HookSend(k)
    \/ HookRespond

\* the webhook service with a chat endpoint that may leave a call unanswered
NextHang ==
    \/ \E body \in Bodies : \E header \in Headers(body) : HookReceive(body, header)
    \/ HookMiddleware
    \/ \E k \in TxIndex : HookFindOne(k)
    \/ \E k \in TxIndex : HookFindOneFails(k)
    \/ \E k \in TxIndex : HookSend(k)
    \/ \E k \in TxIndex : HookSendHangs(k)
    \/ HookRespond

\* the event loop runs a handler whose awaited call has settled
SpecHang == InitHook /\ [][NextHang]_vars /\ WF_vars(HandlerStep)

\* Both services from an empty store, the database connected: /track
\* commands for (ETH, 0xAb) fill the store, and between them events arrive
\* that name that address as the recipient of a native transfer.
E2EBody == [chainId |-> "0x1", txs |-> <<TxIn>>, erc20Transfers |-> <<>>]

E2EHeaders == { Header(TRUE, Hmac(webhookSecret, E2EBody)), ShortHeader }

\* the event arrives when the commands issued so far have answered
E2EReceive(header) ==
    /\ InFlight = {}
    /\ HookReceive(E2EBody, header)

InitE2E ==
    /\ wallets = {}
    /\ users = [u \in AllUserIds |-> NoUser]
    /\ streams = {}
    /\ nextWalletId = 1
    /\ nextStreamId = 1
    /\ cmd = <<>>
    /\ faults = 0
    /\ hook = NoRequest
    /\ call = NoCall
    /\ config = DefaultConfig
    /\ userCommandCounts = NoCommandCounts
    /\ now = 0
    /\ db = "connected"

NextE2E ==
    \/ \E u \in UserIds : StartTrack(u, "ETH", "0xAb", NoAlias)
    \/ \E i \in 1..MaxCmds : TrackEnsureUser(i)
    \/ \E i \in 1..MaxCmds : TrackFindOne(i)
    \/ \E i \in 1..MaxCmds : TrackPushSave(i)
    \/ \E i \in 1..MaxCmds : TrackAddExisting(i)
    \/ \E i \in 1..MaxCmds : TrackCreateStream(i)
    \/ \E i \in 1..MaxCmds : TrackInsert(i)
    \/ \E i \in 1..MaxCmds : TrackAddNew(i)
    \/ \E header \in E2EHeaders : E2EReceive(header)
    \/ HookMiddleware
    \/ \E k \in TxIndex : HookFindOne(k)
    \/ \E k \in TxIndex : HookFindOneFails(k)
    \/ \E k \in TxIndex : HookSend(k)
    \/ HookRespond

SpecE2E == InitE2E /\ [][NextE2E]_vars

\* /track from an empty store with addresses in several spellings: an EVM
\* address in lower and in upper case, and two Solana addresses that differ
\* in the case of their letters only
CaseInputs == { <<"ETH", "0xab">>, <<"ETH", "0xAB">>, <<"SOL", "So1A">>, <<"SOL", "sO1A">> }

NextCase ==
    \/ \E u \in UserIds, inp \in CaseInputs : StartTrack(u, inp[1], inp[2], NoAlias)
    \/ \E i \in 1..MaxCmds : TrackEnsureUser(i)
    \/ \E i \in 1..MaxCmds : TrackFindOne(i)
    \/ \E i \in 1..MaxCmds : TrackPushSave(i)
    \/ \E i \in 1..MaxCmds : TrackAddExisting(i)
    \/ \E i \in 1..MaxCmds : TrackCreateStream(i)
    \/ \E i \in 1..MaxCmds : TrackInsert(i)
    \/ \E i \in 1..MaxCmds : TrackAddNew(i)

SpecCase == InitE2E /\ [][NextCase]_vars

\* Both services over the seeded store, the provider and the database
\* answering every call: /track and /untrack commands for (ETH, 0xab), and
\* one event naming that address, which arrives when an /untrack has been
\* answered with success, other commands still running or starting later.
DispatchHeader == Header(TRUE, Hmac(webhookSecret, E2EBody))

DispatchReceive ==
    /\ hook.pc = "idle"
    /\ \E i \in Done : cmd[i].op = "untrack" /\ cmd[i].outcome = "stopped"
    /\ HookReceive(E2EBody, DispatchHeader)

InitDispatch ==
    /\ \E subs \in InitialSubscribers :
        /\ wallets = IF subs = <<>> THEN {} ELSE {InitialWallet(subs)}
        /\ users = [u \in AllUserIds |->
                       IF u \in Elems(subs)
                       THEN [exists |-> TRUE, trackedWalletIds |-> {1}]
                       ELSE NoUser]
        /\ streams = IF subs = <<>> THEN {} ELSE {NewStream(1, "0xAb", "ETH")}
        /\ nextWalletId = IF subs = <<>> THEN 1 ELSE 2
        /\ nextStreamId = IF subs = <<>> THEN 1 ELSE 2
    /\ cmd = <<>>
    /\ faults = MaxFaults
    /\ hook = NoRequest
    /\ db = "connected"
    /\ call = NoCall
    /\ config = DefaultConfig
    /\ userCommandCounts = NoCommandCounts
    /\ now = 0

NextDispatch ==
    \/ \E u \in UserIds : StartTrack(u, "ETH", "0xab", NoAlias)
    \/ \E i \in 1..MaxCmds : TrackEnsureUser(i)
    \/ \E i \in 1..MaxCmds : TrackFindOne(i)
    \/ \E i \in 1..MaxCmds : TrackPushSave(i)
    \/ \E i \in 1..MaxCmds : TrackAddExisting(i)
    \/ \E i \in 1..MaxCmds : TrackCreateStream(i)
    \/ \E i \in 1..MaxCmds : TrackInsert(i)
    \/ \E i \in 1..MaxCmds : TrackAddNew(i)
    \/ \E u \in UserIds : StartUntrack(u, "ETH", "0xab")
    \/ \E i \in 1..MaxCmds : UntrackFindOne(i)
    \/ \E i \in 1..MaxCmds : UntrackDeleteStream(i)
    \/ \E i \in 1..MaxCmds : UntrackDeleteOne(i)
    \/ \E i \in 1..MaxCmds : UntrackSave(i)
    \/ \E i \in 1..MaxCmds : UntrackPull(i)
    \/ DispatchReceive
    \/ HookMiddleware
    \/ \E k \in TxIndex : HookFindOne(k)
    \/ \E k \in TxIndex : HookSend(k)
    \/ HookRespond

SpecDispatch == InitDispatch /\ [][NextDispatch]_vars

\* /track and /untrack of an EVM wallet and of a Solana wallet over the
\* seeded store
RouteInputs == { <<"ETH", "0xab">>, <<"SOL", "So1A">> }

NextRoute ==
    \/ \E u \in UserIds, inp \in RouteInputs : StartTrack(u, inp[1], inp[2], NoAlias)
    \/ \E i \in 1..MaxCmds : TrackEnsureUser(i)
    \/ \E i \in 1..MaxCmds : TrackFindOne(i)
    \/ \E i \in 1..MaxCmds : TrackPushSave(i)
    \/ \E i \in 1..MaxCmds : TrackAddExisting(i)
    \/ \E i \in 1..MaxCmds : TrackCreateStream(i)
    \/ \E i \in 1..MaxCmds : TrackInsert(i)
    \/ \E i \in 1..MaxCmds : TrackAddNew(i)
    \/ \E u \in UserIds, inp \in RouteInputs : StartUntrack(u, inp[1], inp[2])
    \/ \E i \in 1..MaxCmds : UntrackFindOne(i)
    \/ \E i \in 1..MaxCmds : UntrackDeleteStream(i)
    \/ \E i \in 1..MaxCmds : UntrackDeleteOne(i)
    \/ \E i \in 1..MaxCmds : UntrackSave(i)
    \/ \E i \in 1..MaxCmds : UntrackPull(i)

SpecRoute == Init /\ [][NextRoute]_vars

\* ---- /list ----
find_All(userId) == wallets

\* TrackedWallet.find({trackingUserIds: userId})
find(userId) == { w \in wallets : includes(w.trackingUserIds, userId) }

\* what the list says of a wallet: its chain, its address, its alias
Entry(w) == [chainTicker |-> w.chainTicker, address |-> w.address, alias |-> w.alias]

NothingTracked == [text |-> "not_tracking", shown |-> {}]
NothingOnChain == [text |-> "not_tracking_on_chain", shown |-> {}]
UnknownChain == [text |-> "unknown_chain", shown |-> {}]

\* formatWalletList(wallets, chainFilter): the wallets named in the message
formatWalletList(ws, chainFilter) ==
    IF ws = {} THEN NothingTracked
    ELSE LET filteredWallets == IF chainFilter # NoTicker
                                THEN { w \in ws : w.chainTicker = toUpperCase(chainFilter) }
                                ELSE ws
         IN  IF chainFilter # NoTicker /\ filteredWallets = {}
             THEN NothingOnChain
             ELSE [text |-> "list", shown |-> { Entry(w) : w \in filteredWallets }]

\* bot.command('list'): arg is the word after /list ("" when there is none)
List(userId, arg) ==
    /\ LET chainFilter == IF arg # "" THEN toUpperCase(arg) ELSE NoTicker
           result == IF chainFilter # NoTicker /\ chainFilter \notin SupportedChains
                     THEN UnknownChain
                     ELSE formatWalletList(find(userId), chainFilter)
       IN  call' = [fn |-> "list", args |-> <<userId, arg>>, result |-> result]
    /\ UNCHANGED <<wallets, users, streams, nextWalletId, nextStreamId, cmd, faults, hook, db, config, userCommandCounts, now>>

\* /track and /untrack one after the other over one address on two chains,
\* the provider answering every call, and then /list, at any point of the
\* sequence: as /list writes nothing, the commands that go on after it are
\* left out
ListInputs == { <<"ETH", "0xab">>, <<"BSC", "0xab">> }
ListArgs == {"", "eth", "BSC", "DOGE"}

NotListed == call = NoCall

InitList ==
    /\ \E subs \in InitialSubscribers :
        /\ wallets = IF subs = <<>> THEN {} ELSE {InitialWallet(subs)}
        /\ users = [u \in AllUserIds |->
                       IF u \in Elems(subs)
                       THEN [exists |-> TRUE, trackedWalletIds |-> {1}]
                       ELSE NoUser]
        /\ streams = IF subs = <<>> THEN {} ELSE {NewStream(1, "0xAb", "ETH")}
        /\ nextWalletId = IF subs = <<>> THEN 1 ELSE 2
        /\ nextStreamId = IF subs = <<>> THEN 1 ELSE 2
    /\ cmd = <<>>
    /\ faults = MaxFaults
    /\ hook = NoRequest
    /\ db = "connected"
    /\ call = NoCall
    /\ config = DefaultConfig
    /\ userCommandCounts = NoCommandCounts
    /\ now = 0

NextList ==
    \/ \E u \in UserIds, inp \in ListInputs :
            NotListed /\ Quiescent /\ StartTrack(u, inp[1], inp[2], NoAlias)
    \/ \E i \in 1..MaxCmds : NotListed /\ TrackEnsureUser(i)
    \/ \E i \in 1..MaxCmds : NotListed /\ TrackFindOne(i)
    \/ \E i \in 1..MaxCmds : NotListed /\ TrackPushSave(i)
    \/ \E i \in 1..MaxCmds : NotListed /\ TrackAddExisting(i)
    \/ \E i \in 1..MaxCmds : NotListed /\ TrackCreateStream(i)
    \/ \E i \in 1..MaxCmds : NotListed /\ TrackInsert(i)
    \/ \E i \in 1..MaxCmds : NotListed /\ TrackAddNew(i)
    \/ \E u \in UserIds, inp \in ListInputs :
            NotListed /\ Quiescent /\ StartUntrack(u, inp[1], inp[2])
    \/ \E i \in 1..MaxCmds : NotListed /\ UntrackFindOne(i)
    \/ \E i \in 1..MaxCmds : NotListed /\ UntrackDeleteStream(i)
    \/ \E i \in 1..MaxCmds : NotListed /\ UntrackDeleteOne(i)
    \/ \E i \in 1..MaxCmds : NotListed /\ UntrackSave(i)
    \/ \E i \in 1..MaxCmds : NotListed /\ UntrackPull(i)
    \/ \E u \in AllUserIds, arg \in ListArgs : List(u, arg)

SpecList == InitList /\ [][NextList]_vars

\* ---- /track with aliases, then /list ----
\* /track and /untrack of the key (ETH, 0xab) by two users, overlapping
\* or not, each /track without an alias or with one of two aliases, the
\* provider answering every call, and then /list; user 1 names the wallet
\* "Main", user 2 names it "Cold" or gives no alias
AliasInputs == [u \in UserIds |-> IF u = 1 THEN {"Main"} ELSE {NoAlias, "Cold"}]

NextAlias ==
    \/ \E u \in UserIds : \E alias \in AliasInputs[u] :
            NotListed /\ StartTrack(u, "ETH", "0xab", alias)
    \/ \E i \in 1..MaxCmds : NotListed /\ TrackEnsureUser(i)
    \/ \E i \in 1..MaxCmds : NotListed /\ TrackFindOne(i)
    \/ \E i \in 1..MaxCmds : NotListed /\ TrackPushSave(i)
    \/ \E i \in 1..MaxCmds : NotListed /\ TrackAddExisting(i)
    \/ \E i \in 1..MaxCmds : NotListed /\ TrackCreateStream(i)
    \/ \E i \in 1..MaxCmds : NotListed /\ TrackInsert(i)
    \/ \E i \in 1..MaxCmds : NotListed /\ TrackAddNew(i)
    \/ \E u \in UserIds : NotListed /\ StartUntrack(u, "ETH", "0xab")
    \/ \E i \in 1..MaxCmds : NotListed /\ UntrackFindOne(i)
    \/ \E i \in 1..MaxCmds : NotListed /\ UntrackDeleteStream(i)
    \/ \E i \in 1..MaxCmds : NotListed /\ UntrackDeleteOne(i)
    \/ \E i \in 1..MaxCmds : NotListed /\ UntrackSave(i)
    \/ \E i \in 1..MaxCmds : NotListed /\ UntrackPull(i)
    \/ \E u \in AllUserIds : List(u, "")

SpecAlias == InitList /\ [][NextAlias]_vars

\* ---- the rate limit at work ----
\* settings under which the commands of the model reach the limit: a
\* window of two milliseconds, one or two commands per window
RateConfigs == { [rateLimitWindowMs |-> 2, rateLimitMaxRequests |-> m] : m \in {1, 2} }

\* a millisecond passes; the clock is read only when a command arrives, so
\* the time that passes after the last command of the behaviour is left out
Tick ==
    /\ now < MaxTime
    /\ Len(cmd) < MaxCmds
    /\ now' = now + 1
    /\ UNCHANGED <<wallets, users, streams, nextWalletId, nextStreamId, cmd, faults, hook, db, call,
                   config, userCommandCounts>>

\* nothing tracked yet, or the wallet tracked by user 1
InitRate ==
    /\ \E subs \in {<<>>, <<1>>} :
        /\ wallets = IF subs = <<>> THEN {} ELSE {InitialWallet(subs)}
        /\ users = [u \in AllUserIds |->
                       IF u \in Elems(subs)
                       THEN [exists |-> TRUE, trackedWalletIds |-> {1}]
                       ELSE NoUser]
        /\ streams = IF subs = <<>> THEN {} ELSE {NewStream(1, "0xAb", "ETH")}
        /\ nextWalletId = IF subs = <<>> THEN 1 ELSE 2
        /\ nextStreamId = IF subs = <<>> THEN 1 ELSE 2
    /\ cmd = <<>>
    /\ faults = MaxFaults
    /\ hook = NoRequest
    /\ db = "connected"
    /\ call = NoCall
    /\ config \in RateConfigs
    /\ userCommandCounts = NoCommandCounts
    /\ now = 0

\* at most one command is running
OneRunning == Cardinality(InFlight) <= 1

\* /track and /untrack of the key (ETH, 0xab) by two users at any
\* millisecond, a command arriving while at most one other is running,
\* the provider answering every call
NextRate ==
    \/ Tick
    \/ \E u \in UserIds : OneRunning /\ StartTrack(u, "ETH", "0xab", NoAlias)
    \/ \E i \in 1..MaxCmds : TrackEnsureUser(i)
    \/ \E i \in 1..MaxCmds : TrackFindOne(i)
    \/ \E i \in 1..MaxCmds : TrackPushSave(i)
    \/ \E i \in 1..MaxCmds : TrackAddExisting(i)
    \/ \E i \in 1..MaxCmds : TrackCreateStream(i)
    \/ \E i \in 1..MaxCmds : TrackInsert(i)
    \/ \E i \in 1..MaxCmds : TrackAddNew(i)
    \/ \E u \in UserIds : OneRunning /\ StartUntrack(u, "ETH", "0xab")
    \/ \E i \in 1..MaxCmds : UntrackFindOne(i)
    \/ \E i \in 1..MaxCmds : UntrackDeleteStream(i)
    \/ \E i \in 1..MaxCmds : UntrackDeleteOne(i)
    \/ \E i \in 1..MaxCmds : UntrackSave(i)
    \/ \E i \in 1..MaxCmds : UntrackPull(i)

SpecRate == InitRate /\ [][NextRate]_vars

\* ---- the functions of utils/ called on their own ----
\* raw transfer values (integers in the token's smallest unit) and token
\* decimals; the values have up to ten digits, so that with nine decimals
\* the amount has an integer part and a ninth fractional digit
Values == {0, 1, 5, 10, 12, 100, 105, 1500, 99999999, 100000000, 123456789,
           150000000, 1000000000, 1000000001, 1500000000, 1234567891, 2000000010}
Decimals == 0..9

CallFormatValue(value, decimals) ==
    /\ call' = [fn |-> "formatValue", args |-> <<value, decimals>>,
                result |-> formatValue(value, decimals)]
    /\ UNCHANGED <<wallets, users, streams, nextWalletId, nextStreamId, cmd, faults, hook, db, config, userCommandCounts, now>>

\* the arguments of validateAddress: the addresses of the model, and the
\* configured tickers, two of them in lower case, and other tickers
Addresses == DOMAIN LowerTable
Tickers == SupportedChains \cup {"eth", "sol", "DOGE", "doge", ""}

CallValidateAddress(address, chainTicker) ==
    /\ call' = [fn |-> "validateAddress", args |-> <<address, chainTicker>>,
                result |-> validateAddress(address, chainTicker)]
    /\ UNCHANGED <<wallets, users, streams, nextWalletId, nextStreamId, cmd, faults, hook, db, config, userCommandCounts, now>>

InitUtil ==
    /\ wallets = {}
    /\ users = [u \in AllUserIds |-> NoUser]
    /\ streams = {}
    /\ nextWalletId = 1
    /\ nextStreamId = 1
    /\ cmd = <<>>
    /\ faults = 0
    /\ hook = NoRequest
    /\ db = "connected"
    /\ call = NoCall
    /\ config = DefaultConfig
    /\ userCommandCounts = NoCommandCounts
    /\ now = 0

NextUtil ==
    \/ \E value \in Values, decimals \in Decimals : CallFormatValue(value, decimals)
    \/ \E address \in Addresses, chainTicker \in Tickers :
            CallValidateAddress(address, chainTicker)

SpecUtil == InitUtil /\ [][NextUtil]_vars

\* ---- vocabulary of the properties ----

SameKey(i, k) ==
    /\ cmd[i].chainTicker = cmd[k].chainTicker
    /\ toLowerCase(cmd[i].address) = toLowerCase(cmd[k].address)

\* command i had answered when command k started
Before(i, k) == i \in cmd[k].after

Concurrent(i, k) == i # k /\ ~Before(i, k) /\ ~Before(k, i)

Succeeded(i) == cmd[i].outcome \in {"started", "added", "stopped"}

\* every command on the key of the commands of S, other than those of S,
\* had answered before any command of S started
NothingElseSince(S) ==
    \A k \in Cids \ S : \A i \in S :
        (SameKey(i, k) /\ cmd[k].outcome # "invalid") => Before(k, i)

\* no command on the key of i overlapped i
RanAlone(i) ==
    \A k \in Cids \ {i} :
        (SameKey(i, k) /\ cmd[k].outcome # "invalid") => (Before(k, i) \/ Before(i, k))

RecordsOf(i) ==
    { w \in wallets : w.chainTicker = cmd[i].chainTicker /\ w.address = toLowerCase(cmd[i].address) }

LiveStreamOf(w) == \E s \in streams : s.id = w.moralisStreamId

\* ---- C1 ----
\* C1: in every reachable state every stored TrackedWallet record has a
\* non-empty subscriber list.
C1_NonEmptySubscribers ==
    \A w \in wallets : Len(w.trackingUserIds) > 0

\* an /untrack and a /track on one key overlapped, the /untrack answered
\* 'stopped', and a record of the key is stored
C1_Witness ==
    \E i, k \in Cids :
        /\ cmd[i].op = "untrack" /\ cmd[i].outcome = "stopped"
        /\ cmd[k].op = "track" /\ cmd[k].pc = "done" /\ Concurrent(i, k) /\ SameKey(i, k)
        /\ RecordsOf(i) # {}

\* ---- C2 ----
\* C2: in every quiescent state the live provider streams correspond
\* one-to-one with the stored records: each record's stream is alive and
\* every live stream is the stream of a record.
C2_StreamsMatchRecords ==
    Quiescent =>
        /\ \A w \in wallets : LiveStreamOf(w)
        /\ \A s \in streams : \E w \in wallets : w.moralisStreamId = s.id
        /\ \A w1, w2 \in wallets : w1.moralisStreamId = w2.moralisStreamId => w1 = w2

\* ---- C3 ----
\* C3: in every reachable state at most one record is stored per
\* (chainTicker, address) pair.
C3_UniqueKey ==
    \A w1, w2 \in wallets :
        (w1.chainTicker = w2.chainTicker /\ w1.address = w2.address) => w1 = w2

\* two overlapping /track commands both found no record and both created a
\* stream; one insert went through, the other was refused
C3_Witness ==
    \E i, k \in Cids :
        /\ Concurrent(i, k) /\ SameKey(i, k)
        /\ cmd[i].op = "track" /\ cmd[k].op = "track"
        /\ cmd[i].streamId # 0 /\ cmd[k].streamId # 0
        /\ cmd[i].outcome = "started" /\ cmd[k].outcome = "error" /\ ~cmd[k].storeFailed
        /\ Cardinality(RecordsOf(i)) = 1

\* ---- C4 ----
\* C4: user A runs /track for a key that has no record and is answered
\* 'Tracking started'; afterwards a different user B runs /track for the same
\* key (no store call of it failing, nothing else running on the key).  Then
\* B is answered 'Now tracking', exactly one record of the key is stored, its
\* subscriber list is A then B, and one stream-creation call was made.
C4_TwoUsersOneRecord ==
    \A i, k \in Cids :
        ( /\ cmd[i].op = "track" /\ cmd[k].op = "track"
          /\ cmd[i].userId # cmd[k].userId /\ SameKey(i, k)
          /\ cmd[i].recsAtStart = 0 /\ cmd[i].outcome = "started"
          /\ Before(i, k) /\ cmd[k].pc = "done" /\ ~cmd[k].storeFailed
          /\ NothingElseSince({i, k}) )
        => /\ cmd[k].outcome = "added"
           /\ Cardinality(RecordsOf(i)) = 1
           /\ \A w \in RecordsOf(i) : w.trackingUserIds = <<cmd[i].userId, cmd[k].userId>>
           /\ cmd[i].createCalls + cmd[k].createCalls = 1

C4_Witness ==
    \E i, k \in Cids :
        /\ cmd[i].op = "track" /\ cmd[k].op = "track"
        /\ cmd[i].userId # cmd[k].userId /\ SameKey(i, k)
        /\ cmd[i].recsAtStart = 0 /\ cmd[i].outcome = "started"
        /\ Before(i, k) /\ cmd[k].outcome = "added"
        /\ NothingElseSince({i, k})

\* ---- C5 ----
\* C5: two different users run /track concurrently for a key that had no
\* record when either started, no call failing.  Once both have answered,
\* neither was answered with an error, one record holds both users, and
\* every stream created for the key is the stream of that record.
C5_ConcurrentFirstTrack ==
    \A i, k \in Cids :
        ( /\ cmd[i].op = "track" /\ cmd[k].op = "track"
          /\ cmd[i].userId # cmd[k].userId /\ SameKey(i, k) /\ Concurrent(i, k)
          /\ cmd[i].recsAtStart = 0 /\ cmd[k].recsAtStart = 0
          /\ cmd[i].pc = "done" /\ cmd[k].pc = "done"
          /\ faults = 0 /\ NothingElseSince({i, k}) )
        => /\ Succeeded(i) /\ Succeeded(k)
           /\ \E w \in RecordsOf(i) : Elems(w.trackingUserIds) = {cmd[i].userId, cmd[k].userId}
           /\ cmd[i].createCalls + cmd[k].createCalls = 1
           /\ \A s \in streams : \E w \in wallets : w.moralisStreamId = s.id

\* ---- C6 ----
\* C6: two different users run /track concurrently for a key whose record
\* exists, nothing else running on the key.  Once both have been answered
\* 'Now tracking', the record's subscriber list holds both, next to the
\* subscribers it had.
C6_NoLostSubscriber ==
    \A i, k \in Cids :
        ( /\ cmd[i].op = "track" /\ cmd[k].op = "track"
          /\ cmd[i].userId # cmd[k].userId /\ SameKey(i, k) /\ Concurrent(i, k)
          /\ cmd[i].recsAtStart = 1 /\ cmd[k].recsAtStart = 1
          /\ cmd[i].outcome = "added" /\ cmd[k].outcome = "added"
          /\ NothingElseSince({i, k}) )
        => \E w \in RecordsOf(i) :
                /\ includes(w.trackingUserIds, cmd[i].userId)
                /\ includes(w.trackingUserIds, cmd[k].userId)
                /\ Elems(cmd[i].subsAtStart) \subseteq Elems(w.trackingUserIds)

\* both commands read the record before either saved
C6_Witness ==
    \E i, k \in Cids :
        /\ cmd[i].op = "track" /\ cmd[k].op = "track"
        /\ cmd[i].userId # cmd[k].userId /\ SameKey(i, k) /\ Concurrent(i, k)
        /\ cmd[i].recsAtStart = 1 /\ cmd[k].recsAtStart = 1
        /\ cmd[i].outcome = "added" /\ cmd[k].outcome = "added"
        /\ cmd[i].wallet.trackingUserIds = cmd[k].wallet.trackingUserIds
        /\ NothingElseSince({i, k})

\* ---- C7 ----
\* C7: a /track by user B overlaps the /untrack of the last subscriber A of
\* the same key, no call failing and nothing else running on the key.  Once
\* both have answered, if B was told that tracking succeeded then a record
\* of the key is stored, holds B, and its stream is alive.
C7_TrackSurvivesUntrack ==
    \A i, k \in Cids :
        ( /\ cmd[i].op = "track" /\ cmd[k].op = "untrack"
          /\ cmd[i].userId # cmd[k].userId /\ SameKey(i, k) /\ Concurrent(i, k)
          /\ cmd[k].subsAtStart = <<cmd[k].userId>>
          /\ cmd[i].pc = "done" /\ cmd[k].pc = "done"
          /\ Succeeded(i)
          /\ faults = 0 /\ NothingElseSince({i, k}) )
        => \E w \in RecordsOf(i) :
                /\ includes(w.trackingUserIds, cmd[i].userId)
                /\ LiveStreamOf(w)

\* ---- C8 ----
\* C8: the only two subscribers of a wallet run /untrack concurrently,
\* nothing else running on the key.  Once both have been answered 'Stopped
\* tracking', no record of the key is stored, exactly one stream-release call
\* was made, and (no call failing) the wallet's stream is gone.
C8_BothUntrack ==
    \A i, k \in Cids :
        ( /\ cmd[i].op = "untrack" /\ cmd[k].op = "untrack"
          /\ cmd[i].userId # cmd[k].userId /\ SameKey(i, k) /\ Concurrent(i, k)
          /\ Len(cmd[i].subsAtStart) = 2
          /\ Elems(cmd[i].subsAtStart) = {cmd[i].userId, cmd[k].userId}
          /\ cmd[k].subsAtStart = cmd[i].subsAtStart
          /\ cmd[i].outcome = "stopped" /\ cmd[k].outcome = "stopped"
          /\ NothingElseSince({i, k}) )
        => /\ RecordsOf(i) = {}
           /\ cmd[i].deleteCalls + cmd[k].deleteCalls = 1
           /\ faults = 0 => ~ \E s \in streams : s.address = cmd[i].address
                                                  /\ s.chainTicker = cmd[i].chainTicker

C8_Witness ==
    \E i, k \in Cids :
        /\ cmd[i].op = "untrack" /\ cmd[k].op = "untrack"
        /\ cmd[i].userId # cmd[k].userId /\ SameKey(i, k) /\ Concurrent(i, k)
        /\ Len(cmd[i].subsAtStart) = 2
        /\ Elems(cmd[i].subsAtStart) = {cmd[i].userId, cmd[k].userId}
        /\ cmd[k].subsAtStart = cmd[i].subsAtStart
        /\ cmd[i].outcome = "stopped" /\ cmd[k].outcome = "stopped"
        /\ NothingElseSince({i, k})

\* ---- C9 ----
\* C9: a user runs /track for a key and is told that tracking succeeded;
\* afterwards the same user runs /track for the same key again (no store call
\* of it failing, nothing else running on the key in between).  The second
\* command answers 'already tracking', makes no stream-creation call, and
\* the stored subscriber list is what the first command left, the user
\* occurring in it once.
C9_TrackTwice ==
    \A i, k \in Cids :
        ( /\ cmd[i].op = "track" /\ cmd[k].op = "track"
          /\ cmd[i].userId = cmd[k].userId /\ SameKey(i, k)
          /\ Succeeded(i) /\ Before(i, k)
          /\ cmd[k].pc = "done" /\ ~cmd[k].storeFailed
          /\ RanAlone(i) /\ RanAlone(k)
          /\ \A j \in Cids \ {i, k} :
                (SameKey(i, j) /\ cmd[j].outcome # "invalid") => (Before(j, i) \/ Before(k, j)) )
        => /\ cmd[k].outcome = "already"
           /\ cmd[k].createCalls = 0
           /\ cmd[k].subsAtReply = cmd[i].subsAtReply
           /\ cmd[k].subsAtReply = cmd[k].subsAtStart
           /\ Len(filterOut(cmd[k].subsAtReply, cmd[k].userId)) = Len(cmd[k].subsAtReply) - 1

C9_Witness ==
    \E i, k \in Cids :
        /\ cmd[i].op = "track" /\ cmd[k].op = "track"
        /\ cmd[i].userId = cmd[k].userId /\ SameKey(i, k)
        /\ Succeeded(i) /\ Before(i, k)
        /\ cmd[k].outcome = "already"

\* ---- C10 ----
\* C10: an /untrack that is answered 'Stopped tracking' and ran with nothing
\* else running on its key: if the user was the last subscriber, the record
\* is gone when it answers and it made exactly one stream-release call;
\* otherwise the record is kept with the remaining subscribers and it made
\* no stream-release call.
C10_UntrackLastOrNot ==
    \A i \in Cids :
        ( /\ cmd[i].op = "untrack" /\ cmd[i].outcome = "stopped" /\ RanAlone(i) )
        => LET rest == filterOut(cmd[i].subsAtStart, cmd[i].userId)
           IN  IF rest = <<>>
               THEN cmd[i].recsAtReply = 0 /\ cmd[i].deleteCalls = 1
               ELSE /\ cmd[i].recsAtReply = 1
                    /\ cmd[i].subsAtReply = rest
                    /\ cmd[i].deleteCalls = 0

\* both cases happened in one behaviour: a non-last and then the last
\* subscriber untracked
C10_Witness ==
    \E i, k \in Cids :
        /\ cmd[i].op = "untrack" /\ cmd[i].outcome = "stopped" /\ RanAlone(i)
        /\ cmd[k].op = "untrack" /\ cmd[k].outcome = "stopped" /\ RanAlone(k)
        /\ Len(cmd[i].subsAtStart) = 2 /\ cmd[i].recsAtReply = 1
        /\ Len(cmd[k].subsAtStart) = 1 /\ cmd[k].recsAtReply = 0

\* ---- C11 ----
\* C11: the step in which an /untrack reads the store and finds that its
\* user is not a subscriber of the key (no record, or a record without the
\* user) ends the command, changes no record, no user document and no
\* stream, leaves the command without a stream-release call, and answers
\* 'not tracking' (the error message if the read itself failed), never
\* 'Stopped tracking'.
C11_UntrackNotSubscribed ==
    [][ \A i \in 1..MaxCmds :
          ( /\ i \in Cids /\ cmd[i].op = "untrack" /\ cmd[i].pc = "findOne"
            /\ cmd[i].userId \notin
                  Elems(StoredSubs(wallets, cmd[i].chainTicker, cmd[i].address))
            /\ cmd'[i] # cmd[i] )
          => /\ wallets' = wallets /\ users' = users /\ streams' = streams
             /\ cmd'[i].pc = "done"
             /\ cmd'[i].deleteCalls = 0
             /\ cmd'[i].outcome # "stopped"
             /\ ~cmd'[i].storeFailed => cmd'[i].outcome = "not_tracking" ]_vars

\* an /untrack by a user who is not on the record of the key was answered
C11_Witness ==
    \E i \in Cids :
        /\ cmd[i].op = "untrack" /\ cmd[i].outcome = "not_tracking"
        /\ cmd[i].recsAtStart = 1 /\ cmd[i].recsAtReply = 1
        /\ cmd[i].subsAtReply = cmd[i].subsAtStart

\* ---- C12 ----
\* C12: an /untrack of the last subscriber whose stream-release call was
\* not answered with success, none of whose store calls failed and which
\* ran with nothing else running on its key, is answered 'Stopped tracking'; the record it read is gone from the store
\* and is no longer among the user's tracked wallets.
C12_ReleaseFailsRemovalCompletes ==
    \A i \in Cids :
        ( /\ cmd[i].op = "untrack" /\ cmd[i].pc = "done"
          /\ cmd[i].deleteCalls = 1 /\ cmd[i].deleteStatus \notin {200, 204}
          /\ ~cmd[i].storeFailed /\ RanAlone(i) )
        => /\ cmd[i].outcome = "stopped"
           /\ ~\E w \in wallets : w.id = cmd[i].wallet.id
           /\ cmd[i].wallet.id \notin users[cmd[i].userId].trackedWalletIds

C12_Witness ==
    \E i \in Cids :
        /\ cmd[i].op = "untrack" /\ cmd[i].outcome = "stopped"
        /\ cmd[i].deleteStatus = RequestFailed /\ cmd[i].deleteResult = "false"
        /\ RanAlone(i)
        /\ cmd[i].recsAtStart = 1 /\ cmd[i].recsAtReply = 0

C14_ReleaseAbsentIsSuccess ==
    \A i \in Cids :
        cmd[i].deleteStatus = 404 => cmd[i].deleteResult = "true"

\* ---- vocabulary of the webhook properties ----
\* the request has been answered
Responded == hook.pc = "done"

\* the header is the digest of the body under the webhook secret
CorrectlySigned == hook.header = Header(TRUE, Hmac(webhookSecret, hook.body))

\* no store call of the request was made to fail
StoreUp == ~hook.storeFailed

\* the record stored for an address on the chain of the event
ResolvedWallet(address) == FindOne(toLowerCase(address), chainTickerOf(hook.body.chainId))

\* the deliveries of the request for transaction k to userId about the
\* wallet at address
DeliveriesTo(k, address, userId) ==
    { d \in hook.sent : d.tx = k /\ d.address = address /\ d.userId = userId }

\* ---- C15 ----
\* C15 as stated: when a correctly signed native-transfer event has been
\* answered and no call failed, each subscriber of the wallet at the sender
\* or recipient address of a transaction has exactly one delivery for that
\* transaction and wallet, also when sender and recipient are the same
\* address.
C15_OncePerSubscriber ==
    ( /\ Responded /\ hook.status = 200 /\ CorrectlySigned
      /\ StoreUp /\ ~hook.sendFailed
      /\ hook.body.erc20Transfers = <<>> )
    => \A k \in DOMAIN hook.body.txs :
         \A address \in {toLowerCase(hook.body.txs[k].fromAddress),
                          toLowerCase(hook.body.txs[k].toAddress)} :
           \A userId \in Elems(ResolvedWallet(address).trackingUserIds) :
              Cardinality(DeliveriesTo(k, address, userId)) = 1

\* ---- C16 ----
\* C16: when a correctly signed event has been answered and no store lookup
\* of it failed, a delivery was attempted for every transaction, every
\* wallet at its sender or recipient address, every message of that wallet
\* (one per token transfer, or the native one) and every subscriber of the
\* wallet, whether or not other deliveries of the request failed.
C16_FailedDeliveryIsolated ==
    ( /\ Responded /\ CorrectlySigned /\ StoreUp )
    => \A k \in DOMAIN hook.body.txs :
         LET addresses == trackedAddresses(hook.body.txs[k])
             tokens == hook.body.erc20Transfers
         IN  \A ai \in DOMAIN addresses :
               \A userId \in Elems(ResolvedWallet(addresses[ai]).trackingUserIds) :
                 \A ti \in (IF tokens = <<>> THEN {0} ELSE DOMAIN tokens) :
                    \E d \in hook.sent :
                       d.tx = k /\ d.ai = ai /\ d.ti = ti /\ d.userId = userId

\* the delivery to the first subscriber of a wallet failed and the delivery
\* to its second subscriber was made
C16_Witness ==
    /\ Responded
    /\ \E d1, d2 \in hook.sent :
         /\ ~d1.ok /\ d2.ok
         /\ d1.tx = d2.tx /\ d1.ai = d2.ai /\ d1.ti = d2.ti
         /\ d1.userId = 1 /\ d2.userId = 2

\* ---- C17 ----
\* C17: user A was answered 'Tracking started' and user B 'Now tracking'
\* for (ETH, 0xab); an event that arrived after both answers, correctly
\* signed, with one native transfer to that address, has been answered and
\* none of its calls failed.  Then it was answered 200 and exactly two
\* deliveries were made, one to A and one to B, with the same message.
C17_EndToEnd ==
    \A i, k \in Cids :
        ( /\ cmd[i].op = "track" /\ cmd[k].op = "track" /\ SameKey(i, k)
          /\ cmd[i].chainTicker = "ETH"
          /\ toLowerCase(cmd[i].address) = toLowerCase(TxIn.toAddress)
          /\ cmd[i].userId # cmd[k].userId
          /\ cmd[i].outcome = "started" /\ cmd[k].outcome = "added"
          /\ {i, k} \subseteq hook.after
          /\ Responded /\ CorrectlySigned /\ hook.body = E2EBody
          /\ StoreUp /\ ~hook.sendFailed )
        => /\ hook.status = 200
           /\ Cardinality(hook.sent) = 2
           /\ { d.userId : d \in hook.sent } = {cmd[i].userId, cmd[k].userId}
           /\ \A d1, d2 \in hook.sent : d1.message = d2.message
           /\ \A d \in hook.sent : d.ok /\ d.message.isIncoming

C17_Witness ==
    \E i, k \in Cids :
        /\ cmd[i].outcome = "started" /\ cmd[k].outcome = "added"
        /\ cmd[i].userId # cmd[k].userId /\ SameKey(i, k)
        /\ {i, k} \subseteq hook.after
        /\ Responded /\ CorrectlySigned /\ hook.body = E2EBody
        /\ Cardinality(hook.sent) = 2

C19_ProbeNotProcessed ==
    ~hook.header.present
    => /\ hook.lookups = 0 /\ hook.sent = {} /\ hook.tx = <<>>
       /\ (Responded /\ StoreUp) => (hook.status = 200 /\ hook.reply = "probe")

\* a request without the header whose body names a wallet with subscribers
\* was answered
C19_Witness ==
    /\ Responded /\ ~hook.header.present /\ hook.status = 200
    /\ \E k \in DOMAIN hook.body.txs :
         ResolvedWallet(hook.body.txs[k].toAddress).trackingUserIds # <<>>

\* ---- C20 ----
\* C20: a correctly signed event whose chainId is the moralisChain of no
\* configured chain makes no delivery (and no store lookup), and (the
\* database being connected) is answered 200.
C20_UnknownChainDropped ==
    ( /\ CorrectlySigned
      /\ hook.body.chainId \notin { moralisChain[t] : t \in SupportedChains } )
    => /\ hook.sent = {} /\ hook.lookups = 0
       /\ (Responded /\ StoreUp) => hook.status = 200

\* such an event with a transfer to an address that is tracked on ETH was
\* answered as processed
C20_Witness ==
    /\ Responded /\ CorrectlySigned /\ hook.body.chainId = "0x999"
    /\ hook.status = 200 /\ hook.reply = "processed"
    /\ \E k \in DOMAIN hook.body.txs :
         FindOne(toLowerCase(hook.body.txs[k].toAddress), "ETH").trackingUserIds # <<>>
\* ---- C21 ----
\* the event's chain has a record for the address
RecordOnEventChain(address) ==
    \E w \in wallets : /\ w.address = toLowerCase(address)
                       /\ w.chainTicker = chainTickerOf(hook.body.chainId)

\* C21: a correctly signed event whose transactions name only addresses
\* without a record on the event's chain makes no delivery, whatever is
\* recorded for these addresses on other chains, and (the database being
\* connected) is answered 200.
C21_UntrackedNoDelivery ==
    ( /\ CorrectlySigned
      /\ \A k \in DOMAIN hook.body.txs :
           \A address \in Elems(trackedAddresses(hook.body.txs[k])) :
               ~RecordOnEventChain(address) )
    => /\ hook.sent = {}
       /\ (Responded /\ StoreUp) => hook.status = 200

\* an ETH event with a transfer to 0xee, which is tracked on BSC only, was
\* looked up and answered as processed
C21_Witness ==
    /\ Responded /\ CorrectlySigned /\ StoreUp
    /\ hook.body.chainId = "0x1" /\ hook.body.txs = <<TxOther>>
    /\ OtherChainWallet \in wallets
    /\ hook.lookups = 2 /\ hook.sent = {} /\ hook.status = 200
\* ---- C22 ----
\* the alerts of the request for transaction k about the wallet at address,
\* as delivered to userId
AlertsAbout(k, address, userId) == DeliveriesTo(k, address, userId)

\* C22 as stated: when a correctly signed event has been answered and no
\* store call failed, then for each transaction and each wallet resolved
\* for its sender or recipient, a subscriber has got exactly one alert per
\* token-transfer record of the event and no native alert when the event
\* has such records, and exactly one native alert when it has none.
C22_AlertsPerTransfer ==
    ( Responded /\ hook.status = 200 /\ CorrectlySigned /\ StoreUp )
    => \A k \in DOMAIN hook.body.txs :
         \A address \in Elems(trackedAddresses(hook.body.txs[k])) :
           LET wallet == ResolvedWallet(address)
               tokens == hook.body.erc20Transfers
           IN  wallet # NoWallet =>
                 \A userId \in Elems(wallet.trackingUserIds) :
                   LET alerts == AlertsAbout(k, address, userId)
                   IN  IF Len(tokens) > 0
                       THEN /\ Cardinality(alerts) = Len(tokens)
                            /\ \A d \in alerts : d.message.kind = "token"
                            /\ \A ti \in DOMAIN tokens : \E d \in alerts : d.ti = ti
                       ELSE /\ Cardinality(alerts) = 1
                            /\ \A d \in alerts : d.message.kind = "native"

\* ---- C23 ----
\* the recipient of the transfer a delivery is about: of the transaction for
\* a native alert, of the token-transfer record for a token alert
RecipientOf(d) ==
    IF d.ti = 0 THEN hook.body.txs[d.tx].toAddress
    ELSE hook.body.erc20Transfers[d.ti].to

EqualIgnoringCase(a, b) == toLowerCase(a) = toLowerCase(b)

\* C23: every alert sent for a tracked address says incoming (Received)
\* exactly when the tracked address equals the recipient of the transfer up
\* to case, and outgoing (Sent) otherwise.
C23_DirectionByRecipient ==
    \A d \in hook.sent :
        d.message.isIncoming <=> EqualIgnoringCase(d.address, RecipientOf(d))

\* one event gave an incoming alert for a recipient spelled in another case
\* than the tracked address, and an outgoing alert for the sender
C23_Witness ==
    /\ \E d \in hook.sent : /\ d.message.isIncoming
                             /\ d.address # RecipientOf(d)
    /\ \E d \in hook.sent : /\ ~d.message.isIncoming
                             /\ d.address = toLowerCase(hook.body.txs[d.tx].fromAddress)

\* ---- C24 ----
\* the i-th fractional digit of value / 10^decimals
FractionDigit(value, decimals, i) == (value \div pow10(decimals - i)) % 10

\* the decimal expansion of value / 10^decimals with its first n fractional
\* digits, trailing zeros left out, and no point when no digit remains
RECURSIVE Expansion(_, _, _)
Expansion(value, decimals, n) ==
    IF n = 0 THEN toString(value \div pow10(decimals))
    ELSE IF FractionDigit(value, decimals, n) = 0 THEN Expansion(value, decimals, n - 1)
    ELSE toString(value \div pow10(decimals)) \o <<".">>
            \o [i \in 1..n |-> DigitChars[FractionDigit(value, decimals, i) + 1]]

\* C24 as stated: formatValue(value, decimals) is the exact decimal
\* expansion of value / 10^decimals, trailing zeros trimmed, no decimal point
\* when the fraction is zero, no non-zero fractional digit lost.
C24_ExactExpansion ==
    call.fn = "formatValue" =>
        call.result = Expansion(call.args[1], call.args[2], call.args[2])

\* C24 amended: formatValue(value, decimals) is the decimal expansion of
\* value / 10^decimals cut (not rounded) after its eighth fractional digit,
\* trailing zeros trimmed, no decimal point when no fractional digit remains.
C24_ExactToEightDigits ==
    call.fn = "formatValue" =>
        call.result = Expansion(call.args[1], call.args[2],
                                IF call.args[2] < 8 THEN call.args[2] ELSE 8)

\* 1500000000 with nine decimals gave "1.5"
C24_Witness ==
    /\ call.fn = "formatValue" /\ call.args = <<1500000000, 9>>
    /\ call.result = <<"1", ".", "5">>

\* ---- C27 ----
\* the errors that say the address is malformed
InvalidFormatErrors ==
    { "Invalid EVM address format", "Invalid Solana address format",
      "Invalid address format. Expected 0x... format.",
      "Invalid Solana address format. Expected Base58 encoded address." }

\* the ticker, read in upper case as the commands read it, is configured
Supported(chainTicker) == toUpperCase(chainTicker) \in SupportedChains

\* C27: for a ticker that is not a supported chain, validateAddress
\* returns the unsupported-chain error whatever the address, never an
\* invalid-format error; an invalid-format error is returned only for a
\* supported ticker.
C27_UnsupportedChainError ==
    call.fn = "validateAddress" =>
        /\ ~Supported(call.args[2]) =>
              ~call.result.isValid /\ call.result.error = "Unsupported chain"
        /\ call.result.error \in InvalidFormatErrors => Supported(call.args[2])

\* a malformed address on an unknown ticker got the unsupported-chain
\* error
C27_Witness ==
    /\ call.fn = "validateAddress" /\ call.args = <<"0xzz", "DOGE">>
    /\ call.result.error = "Unsupported chain"

\* ---- C25 ----
\* the streams alive at the provider for the key of command i
StreamsOf(i) ==
    { st \in streams : /\ st.chainTicker = cmd[i].chainTicker
                       /\ toLowerCase(st.address) = toLowerCase(cmd[i].address) }

\* commands i and k are /track commands on one EVM chain with valid
\* addresses that differ in letter case only
CaseVariants(i, k) ==
    /\ i # k /\ cmd[i].op = "track" /\ cmd[k].op = "track"
    /\ cmd[i].chainTicker = cmd[k].chainTicker /\ cmd[i].chainTicker \in EvmChains
    /\ cmd[i].outcome # "invalid" /\ cmd[k].outcome # "invalid"
    /\ cmd[i].raw # cmd[k].raw /\ toLowerCase(cmd[i].raw) = toLowerCase(cmd[k].raw)

\* C25 as stated: two /track commands on one EVM chain whose valid raw
\* addresses differ in letter case only have the same canonical address,
\* and once both have answered (no call failing) there is one record and
\* one stream for them, whether the second started after the first had
\* answered or before.
C25_CaseVariantsOneRecord ==
    \A i, k \in Cids :
        CaseVariants(i, k) =>
            /\ cmd[i].address = cmd[k].address
            /\ ( /\ Quiescent /\ faults = 0 )
               => /\ Cardinality(RecordsOf(i)) = 1
                  /\ Cardinality(StreamsOf(i)) = 1

\* ---- C26 ----
\* the records stored under the address as command i got it
RecordsUnderRaw(i) ==
    { w \in wallets : w.chainTicker = cmd[i].chainTicker /\ w.address = cmd[i].raw }

\* C26 as stated: a /track on SOL that has succeeded has its record stored
\* under the validated input unchanged, and two such commands with
\* different addresses (also when they differ in letter case only) have two
\* different records, each with its own stream.
C26_SolanaStoredAsSupplied ==
    \A i \in Cids :
        ( /\ cmd[i].op = "track" /\ cmd[i].chainTicker = "SOL"
          /\ cmd[i].pc = "done" /\ cmd[i].outcome \in {"started", "added"} )
        => /\ \E w \in RecordsUnderRaw(i) : cmd[i].userId \in Elems(w.trackingUserIds)
           /\ \A k \in Cids :
                ( /\ cmd[k].op = "track" /\ cmd[k].chainTicker = "SOL"
                  /\ cmd[k].pc = "done" /\ cmd[k].outcome \in {"started", "added"}
                  /\ cmd[k].raw # cmd[i].raw /\ Quiescent )
                => \E wi \in RecordsUnderRaw(i), wk \in RecordsUnderRaw(k) :
                      /\ wi.id # wk.id /\ wi.moralisStreamId # wk.moralisStreamId
                      /\ LiveStreamOf(wi) /\ LiveStreamOf(wk)

\* ---- C28 ----
\* the wallets whose stored subscriber list contains userId, on the chain
\* named by arg when arg is not empty
SubscribedWallets(userId, arg) ==
    { w \in wallets : /\ userId \in Elems(w.trackingUserIds)
                      /\ (arg # "" => w.chainTicker = toUpperCase(arg)) }

\* a step that is an answer of /list
ListAnswers == call' # call /\ call'.fn = "list"

\* C28: whatever /track and /untrack commands have run or are running,
\* /list shows a user exactly the stored wallets whose subscriber list
\* contains that user, only those on the given chain when a chain is given.
C28_ListShowsSubscribed ==
    [][ ListAnswers =>
          call'.result.shown =
            { Entry(w) : w \in SubscribedWallets(call'.args[1], call'.args[2]) } ]_vars

\* user 1, subscribed to a wallet on ETH and to one on BSC, asked for BSC and
\* was shown the BSC wallet only
C28_Witness ==
    /\ call.fn = "list" /\ call.args = <<1, "BSC">>
    /\ Cardinality(call.result.shown) = 1
    /\ \A e \in call.result.shown : e.chainTicker = "BSC"
    /\ Cardinality(SubscribedWallets(1, "")) = 2

\* ---- C29 ----
\* C29 as stated, on finite runs: every outbound call is ended by an answer
\* or by a timeout, so a correctly signed request that has not been
\* answered never waits on a call that nothing will end.
C29_NoCallWithoutEnd ==
    (hook.pc = "processing" /\ CorrectlySigned)
    => \A k \in DOMAIN hook.tx : hook.tx[k].pc # "pending"

\* ---- C30 ----
\* the signature of the request has been verified and found right
SignatureVerified ==
    /\ hook.header.present
    /\ verifyWebhookSignature(hook.body, hook.header.value) = "true"

UntrackedBefore(i, address, userId) ==
    /\ i \in hook.after
    /\ cmd[i].op = "untrack" /\ cmd[i].outcome = "stopped"
    /\ cmd[i].userId = userId
    /\ cmd[i].chainTicker = chainTickerOf(hook.body.chainId)
    /\ toLowerCase(cmd[i].address) = address
    /\ \A k \in Cids :
         ( /\ cmd[k].op = "track" /\ cmd[k].userId = userId /\ SameKey(i, k)
           /\ cmd[k].outcome # "invalid" ) => Before(k, i)

\* C31: an event whose dispatch starts after a user's /untrack of a wallet
\* was answered with success delivers no alert for that wallet to that
\* user, whatever other commands overlapped the /untrack.
C31_NoAlertAfterUntrack ==
    \A d \in hook.sent :
        ~ \E i \in Cids : UntrackedBefore(i, d.address, d.userId)

\* user 1 had untracked the wallet, and the event that arrived afterwards
\* was delivered to user 2, who still tracks it
C31_Witness ==
    /\ Responded
    /\ \E i \in Cids : UntrackedBefore(i, "0xab", 1)
    /\ \E d \in hook.sent : d.address = "0xab" /\ d.userId = 2

\* ---- C32 ----
\* what is stored for the key and the user of command i hangs together: the
\* user's wallet list names a record exactly when the record lists the
\* user, and the key has a live stream exactly when it has a record
AllOrNothing(i) ==
    LET userId == cmd[i].userId
    IN  /\ \A w \in RecordsOf(i) :
             includes(w.trackingUserIds, userId) <=> w.id \in users[userId].trackedWalletIds
        /\ \A id \in users[userId].trackedWalletIds : \E w \in wallets : w.id = id
        /\ \A w \in RecordsOf(i) : LiveStreamOf(w)
        /\ \A st \in StreamsOf(i) : \E w \in RecordsOf(i) : w.moralisStreamId = st.id

\* C32 as stated: when a store call of a /track or /untrack fails partway
\* (the command running alone on its key and being the only one that
\* failed), then after its answer the subscriber list, the record, the
\* user's wallet list and the stream either all reflect the command or all
\* are as before it.
C32_AllOrNothing ==
    \A i \in Cids :
        ( /\ Quiescent /\ cmd[i].storeFailed /\ RanAlone(i)
          /\ \A k \in Cids \ {i} : ~cmd[k].storeFailed /\ cmd[k].createStatus # RequestFailed
                                     /\ cmd[k].deleteStatus \in {0, 200} /\ RanAlone(k) )
        => AllOrNothing(i)

\* ---- C33 ----
\* the sub-API of the family of a chain ticker
FamilyApi(chainTicker) == IF chainTicker = "SOL" THEN "solana" ELSE "evm"

\* C33: every stream-creation and stream-deletion call of a command goes
\* to the sub-API of the family of the wallet's chain ticker (the Solana
\* sub-API exactly for SOL), every live stream is alive under the sub-API
\* of its chain, and a deletion is sent to the sub-API under which the
\* stream is alive.
C33_RoutedByFamily ==
    /\ \A i \in Cids :
         /\ cmd[i].createCalls > 0 => cmd[i].createApi = FamilyApi(cmd[i].chainTicker)
         /\ cmd[i].deleteCalls > 0 =>
              /\ cmd[i].deleteApi = FamilyApi(cmd[i].chainTicker)
              /\ cmd[i].streamApi \in {"none", cmd[i].deleteApi}
    /\ \A st \in streams : st.api = FamilyApi(st.chainTicker)

\* the stream of a Solana wallet was created and later deleted, both under
\* the Solana sub-API
C33_Witness ==
    \E i, k \in Cids :
        /\ cmd[i].op = "track" /\ cmd[i].chainTicker = "SOL" /\ cmd[i].createApi = "solana"
        /\ cmd[k].op = "untrack" /\ cmd[k].chainTicker = "SOL"
        /\ cmd[k].deleteApi = "solana" /\ cmd[k].streamApi = "solana"
        /\ cmd[k].deleteStatus = 200 /\ cmd[k].wallet.moralisStreamId = cmd[i].streamId

\* ---- C34 ----
\* command i is a /track that has gone on to write a new record
WritesRecord(i) ==
    /\ cmd[i].op = "track"
    /\ cmd[i].pc \in {"insert", "addNew"} \/ cmd[i].outcome = "started"

\* C34: in every reachable state every stored record has a stream id, one
\* that the provider has handed out, and a /track goes on to write a new
\* record only when its stream-creation call has succeeded.
C34_NoPendingStreamRecord ==
    /\ \A w \in wallets : w.moralisStreamId # 0 /\ w.moralisStreamId < nextStreamId
    /\ \A i \in Cids :
         WritesRecord(i) => /\ cmd[i].createStatus \in {200, 201}
                            /\ cmd[i].streamId # 0

\* a /track created a stream and stored the record with its id, and
\* another /track, whose creation call failed, stored nothing
C34_Witness ==
    \E i, k \in Cids :
        /\ cmd[i].op = "track" /\ cmd[i].outcome = "started"
        /\ \E w \in wallets : w.id = cmd[i].wallet.id /\ w.moralisStreamId = cmd[i].streamId
        /\ cmd[k].op = "track" /\ cmd[k].createStatus = RequestFailed
        /\ cmd[k].outcome = "failed" /\ cmd[k].wallet = NoWallet

\* ---- C35 ----
\* C35 as stated: in every reachable state no user id occurs more than
\* once in the subscriber list of a record, also when one user has issued
\* two overlapping /track commands for the key.
C35_NoDuplicateSubscriber ==
    \A w \in wallets :
        \A a, b \in DOMAIN w.trackingUserIds :
            w.trackingUserIds[a] = w.trackingUserIds[b] => a = b

\* ---- C36 ----
\* C36 as stated: in every quiescent state, no store call having failed,
\* a user's wallet list contains the id of a stored record exactly when
\* the record's subscriber list contains the user.
C36_RelationAgrees ==
    ( Quiescent /\ \A i \in Cids : ~cmd[i].storeFailed /\ cmd[i].outcome # "error" )
    => \A w \in wallets : \A userId \in AllUserIds :
          w.id \in users[userId].trackedWalletIds <=> includes(w.trackingUserIds, userId)

\* ---- C37 ----
\* C37 as stated: every token-transfer alert delivered to a subscriber of a
\* wallet is about a token-transfer record whose sender or recipient is the
\* address of that wallet.
C37_TokenAlertsOwnTransfers ==
    \A d \in hook.sent :
        d.ti # 0 =>
            LET tokenTransfer == hook.body.erc20Transfers[d.ti]
            IN  \/ toLowerCase(tokenTransfer.from) = d.address
                \/ toLowerCase(tokenTransfer.to) = d.address

\* ---- C38 ----
\* The token alerts that user userId has got, as a subscriber of the wallet
\* at address, for the token-transfer record at position ti of the event.
TokenAlertsFor(address, userId, ti) ==
    { d \in hook.sent : d.address = address /\ d.userId = userId /\ d.ti = ti }

\* C38 as stated: within one event each token-transfer record is alerted
\* to a subscriber of a wallet at most once, however many transactions of
\* the event involve the wallet.
C38_OncePerTokenTransfer ==
    \A address \in { d.address : d \in hook.sent } :
    \A userId \in AllUserIds :
    \A ti \in DOMAIN hook.body.erc20Transfers :
        Cardinality(TokenAlertsFor(address, userId, ti)) <= 1

\* ---- C39 ----
\* command i created the record w: its /track went the new-wallet way and
\* stored the document with this id
Created(i, w) ==
    /\ cmd[i].op = "track" /\ cmd[i].wallet.id = w.id
    /\ cmd[i].pc = "addNew" \/ cmd[i].outcome = "started"

\* the alias that the first subscriber of the record gave: the alias of
\* the /track that created it (none for the record stored at the start)
FirstAlias(w) ==
    IF \E i \in Cids : Created(i, w)
    THEN (CHOOSE c \in { [alias |-> cmd[i].alias] : i \in { k \in Cids : Created(k, w) } } : TRUE).alias
    ELSE NoAlias

\* C39: in every reachable state every stored record carries the alias
\* given by the /track that created it, whatever /track commands of the
\* key ran afterwards, and a /list shows every record with that alias.
C39_AliasSetAtCreation ==
    /\ \A w \in wallets : w.alias = FirstAlias(w)
    /\ call.fn = "list" =>
          \A e \in call.result.shown :
              \E w \in wallets : e = Entry(w) /\ e.alias = FirstAlias(w)

\* user 1 created the record with one alias, user 2 then tracked the key
\* with another alias, and the /list of user 2 shows the alias of user 1
C39_Witness ==
    \E i, k \in Cids :
        /\ cmd[i].userId = 1 /\ cmd[i].outcome = "started" /\ cmd[i].alias = "Main"
        /\ cmd[k].userId = 2 /\ cmd[k].outcome = "added" /\ cmd[k].alias = "Cold"
        /\ cmd[k].wallet.id = cmd[i].wallet.id
        /\ call.fn = "list" /\ call.args[1] = 2
        /\ call.result.shown = {[chainTicker |-> "ETH", address |-> "0xab", alias |-> "Main"]}

\* ---- C40 ----
\* the rate limiter let command i in; command i was turned away by it
Admitted(i) == cmd[i].outcome # "rate_limited"
Rejected(i) == cmd[i].outcome = "rate_limited"

\* the commands of a user that were admitted at a millisecond of the
\* window of rateLimitWindowMs milliseconds that starts at millisecond a
AdmittedInWindow(userId, a) ==
    { i \in Cids : /\ cmd[i].userId = userId /\ Admitted(i)
                   /\ a <= cmd[i].at /\ cmd[i].at < a + config.rateLimitWindowMs }

\* the admitted commands of the same user that arrived before command i
\* and less than rateLimitWindowMs milliseconds before it
CountedAgainst(i) ==
    { k \in 1..(i - 1) : /\ cmd[k].userId = cmd[i].userId /\ Admitted(k)
                         /\ cmd[i].at - cmd[k].at < config.rateLimitWindowMs }

\* everything the commands can write: the two collections and the streams
\* at the provider
StoreAndProvider == <<wallets, users, streams, nextWalletId, nextStreamId>>

\* C40: in every step of every behaviour, (1) no user has more than
\* rateLimitMaxRequests admitted /track and /untrack commands in any
\* window of rateLimitWindowMs milliseconds; (2) a command is rejected
\* exactly when rateLimitMaxRequests admitted commands of the same user
\* arrived less than rateLimitWindowMs milliseconds before it, so that
\* neither rejected commands nor the commands of other users count; (3) a
\* rejected command has answered at once, made no provider call, and the
\* step that rejects it leaves the store and the provider as they were.
C40_RateLimit ==
    [][ /\ \A userId \in AllUserIds : \A a \in 0..now' :
            Cardinality(AdmittedInWindow(userId, a)') <= config'.rateLimitMaxRequests
        /\ \A i \in Cids' :
            /\ Rejected(i)' <=> Cardinality(CountedAgainst(i)') >= config'.rateLimitMaxRequests
            /\ Rejected(i)' =>
                  /\ cmd'[i].pc = "done" /\ cmd'[i].wallet = NoWallet
                  /\ cmd'[i].createCalls = 0 /\ cmd'[i].deleteCalls = 0
                  /\ i \in Cids => cmd'[i] = cmd[i]
                  /\ i \notin Cids => StoreAndProvider' = StoreAndProvider
      ]_vars

\* one command per window: user 1 was admitted, then rejected one
\* millisecond later while the first command was running, and user 2 has
\* the whole allowance left
C40_Witness ==
    /\ config.rateLimitMaxRequests = 1
    /\ \E i, k \in Cids :
        /\ cmd[i].userId = 1 /\ Admitted(i) /\ cmd[i].op = "track" /\ cmd[i].pc # "done"
        /\ cmd[k].userId = 1 /\ Rejected(k) /\ cmd[k].at = cmd[i].at + 1
    /\ userCommandCounts[2] = <<>>
    /\ Len(userCommandCounts[1]) = 1
====
